---- MODULE Spec2Model ----
(***************************************************************************)
(* Model of the MPT update gadget (src/src/gadgets/mpt_update.rs):         *)
(*   - MptUpdateConfig::assign, the witness assignment, as a state machine *)
(*     over the proofs of a batch, one action per loop body;               *)
(*   - MptUpdateConfig::configure, the registered constraints, as a        *)
(*     predicate over (previous, current, next) rows of the region.        *)
(* Field elements of Fr are modelled in a small prime field; bit widths    *)
(* are scaled down by Scaled so that every packed value fits the field.    *)
(***************************************************************************)
EXTENDS Integers, Sequences, FiniteSets, TLC

(***************************************************************************)
(* Bounds of the model.                                                    *)
(***************************************************************************)
\* longest authentication path (number of AccountTrie rows of one proof)
MaxDepth == 2
\* most proofs in one batch handed to assign
MaxProofs == 2
\* cells a prover may overwrite after assignment (ProverSpec only)
MaxTamper == 1

(***************************************************************************)
(* The field Fr.                                                           *)
(***************************************************************************)
\* modulus of the model's prime field (stands for the bn256 scalar field)
FrModulus == 32749

Add(a, b) == (a + b) % FrModulus
Sub(a, b) == (a + FrModulus - b) % FrModulus
Mul(a, b) == (a * b) % FrModulus

RECURSIVE Pow(_, _)
Pow(a, e) ==
    IF e = 0 THEN 1
    ELSE LET h == Pow(a, e \div 2)
             s == Mul(h, h)
         IN IF e % 2 = 1 THEN Mul(s, a) ELSE s

\* Field::invert().unwrap_or(zero)
Inv(a) == IF a = 0 THEN 0 ELSE Pow(a, FrModulus - 2)

\* a bit width of the source, scaled to the model's field (160 -> 10 bits)
Scaled(bits) == bits \div 16

RECURSIVE Pow2(_)
Pow2(n) == IF n = 0 THEN 1 ELSE 2 * Pow2(n - 1)

\* types::hash, the Poseidon hash: an oracle with hash(0, 0) = 0
hash(l, r) ==
    ( Mul(Mul(l, l), 5) + Mul(Mul(l, r), 3) + Mul(Mul(r, r), 7)
      + Mul(l, 11) + Mul(r, 13) ) % FrModulus

\* bit i of the canonical representation of key (KeyBit relation)
KeyBit(key, i) == (key \div Pow2(i)) % 2

\* ByteRange relation: value fits in n + 1 bytes
FitsBytes(value, n) == value < Pow2(Scaled(8 * (n + 1)))

(***************************************************************************)
(* Addresses.                                                              *)
(***************************************************************************)
address_high(a) == a \div Pow2(Scaled(32))

address_low(a) == (a % Pow2(Scaled(32))) * Pow2(Scaled(96))

hash_address(a) == hash(address_high(a), address_low(a))

\* types::account_key, equal to hash_address by test_account_key
account_key(a) == hash_address(a)

address_to_fr(a) == a % FrModulus

(***************************************************************************)
(* Enumerations, in declaration order; the first variant of each is the    *)
(* one an all-zero (unassigned) OneHot cell denotes.                       *)
(***************************************************************************)
SegmentTypes ==
    << "Start", "AccountTrie", "AccountLeaf0", "AccountLeaf1", "AccountLeaf2",
       "AccountLeaf3", "AccountLeaf4", "StorageTrie", "StorageLeaf0",
       "StorageLeaf1" >>

PathTypes == << "Start", "Common", "ExtensionOld", "ExtensionNew" >>

MPTProofTypes ==
    << "NonceChanged", "BalanceChanged", "CodeHashExists",
       "AccountDoesNotExist", "AccountDestructed", "StorageChanged",
       "StorageDoesNotExist" >>

Range(s) == { s[i] : i \in 1..Len(s) }

Reverse(s) == [ i \in 1..Len(s) |-> s[Len(s) + 1 - i] ]

\* Option<T>: None is the empty sequence, Some(v) the singleton
None == << >>
Some(v) == << v >>
unwrap_or(o, d) == IF o = None THEN d ELSE o[1]

ZERO_ACCOUNT_HASH == 0

(***************************************************************************)
(* Account leaves (types.rs).  An account leaf hashes, bottom-up:          *)
(*   h3 = hash(code_size * 2^64 + nonce, balance), h4 = hash(h3, h2),      *)
(*   data hash = hash(h4, poseidon code hash),                             *)
(*   leaf hash = hash(hash(1, key), data hash).                            *)
(***************************************************************************)
nonce_and_codesize(acc) ==
    Add(Mul(acc.code_size, Pow2(Scaled(64))), acc.nonce)

account_h3(acc) == hash(nonce_and_codesize(acc), acc.balance)

account_h4(acc) == hash(account_h3(acc), acc.h2)

account_data_hash(acc) == hash(account_h4(acc), acc.pch)

key_hash_of(key) == hash(1, key)

leaf_hash(key, data_hash) == hash(key_hash_of(key), data_hash)

\* Proof::old_account_leaf_hashes / new_account_leaf_hashes: the hash column
\* of the four leaf rows, by claim kind; None when the account is absent
account_leaf_hashes(kind, account) ==
    IF account = None THEN None
    ELSE LET acc == account[1]
         IN Some(<< account_data_hash(acc), account_h4(acc), account_h3(acc),
                    IF kind = "BalanceChanged" THEN acc.balance
                    ELSE nonce_and_codesize(acc) >>)

old_account_leaf_hashes(proof) ==
    account_leaf_hashes(proof.claim.kind, proof.old_account)

new_account_leaf_hashes(proof) ==
    account_leaf_hashes(proof.claim.kind, proof.new_account)

\* Proof::account_leaf_siblings: the sibling column of the four leaf rows
account_leaf_siblings(proof) ==
    LET account == IF proof.new_account # None THEN proof.new_account
                   ELSE proof.old_account
        acc == unwrap_or(account,
                   [nonce |-> 0, code_size |-> 0, balance |-> 0, h2 |-> 0, pch |-> 0])
    IN << key_hash_of(account_key(proof.claim.address)), acc.pch, acc.h2,
          IF proof.claim.kind = "BalanceChanged" THEN nonce_and_codesize(acc)
          ELSE acc.balance >>

\* Claim::old_value_assignment / new_value_assignment
value_of(kind, account) ==
    IF account = None THEN 0
    ELSE IF kind = "BalanceChanged" THEN account[1].balance
    ELSE account[1].nonce

\* Proof::n_rows: the rows of one proof that carry the claim's columns
LeafRows == 4
n_rows(proof) == 1 + Len(proof.address_hash_traces) + LeafRows

(***************************************************************************)
(* Authentication paths.  node_at(k, m, leaf, ...) is the hash of the node *)
(* at depth k of the path whose node at depth m is leaf; below depth m the *)
(* side has terminated and its hash is frozen at leaf.                     *)
(***************************************************************************)
RECURSIVE node_at(_, _, _, _, _)
node_at(k, m, leaf, key, sibs) ==
    IF k >= m THEN leaf
    ELSE LET child == node_at(k + 1, m, leaf, key, sibs)
         IN IF KeyBit(key, k) = 1 THEN hash(sibs[k + 1], child)
            ELSE hash(child, sibs[k + 1])

\* the step at depth k (1..n): old side ends at depth dold, new side at dnew
hash_trace(k, key, sibs, dold, oldleaf, dnew, newleaf) ==
    [ direction |-> KeyBit(key, k - 1),
      old_hash |-> node_at(k, dold, oldleaf, key, sibs),
      new_hash |-> node_at(k, dnew, newleaf, key, sibs),
      sibling |-> sibs[k],
      is_padding_open |-> k > dold,
      is_padding_close |-> k > dnew ]

\* a proof, with address_hash_traces stored leaf-to-root as SMTTrace has them;
\* t gives the address, the siblings by depth, the depth at which each side
\* ends and the leaf (or empty node) it ends in
make_proof(t) ==
    LET key == account_key(t.address)
        n == Len(t.sibs)
    IN [ claim |-> [ kind |-> t.kind, address |-> t.address,
                     old_root |-> node_at(0, t.dold, t.oldleaf, key, t.sibs),
                     new_root |-> node_at(0, t.dnew, t.newleaf, key, t.sibs),
                     old_value |-> value_of(t.kind, t.old_account),
                     new_value |-> value_of(t.kind, t.new_account),
                     storage_key |-> 0 ],
         old |-> [ key |-> t.oldkey, key_hash |-> key_hash_of(t.oldkey),
                   leaf_data_hash |-> t.old_data ],
         new |-> [ key |-> t.newkey, key_hash |-> key_hash_of(t.newkey),
                   leaf_data_hash |-> t.new_data ],
         old_account |-> t.old_account,
         new_account |-> t.new_account,
         address_hash_traces |->
             Reverse([ k \in 1..n |->
                 hash_trace(k, key, t.sibs, t.dold, t.oldleaf, t.dnew, t.newleaf) ]) ]

(***************************************************************************)
(* The claims of the model: for a few addresses, accounts and sibling      *)
(* hashes, every update of an existing account, every write to a type-2    *)
(* empty account (an empty node in the slot) and every write to a type-1   *)
(* empty account (another leaf in the slot, displaced to depth n), and the *)
(* reverse of the two writes (the account is deleted).                     *)
(***************************************************************************)
Addresses == { 6, 9 }

\* sibling hash met at depth k of any path
sibling_at(k) == 40 + k

Account(nonce, code_size, balance) ==
    [ nonce |-> nonce, code_size |-> code_size, balance |-> balance,
      h2 |-> 21, pch |-> 22 ]

\* the account after the claim's write
updated(kind, acc) ==
    IF kind = "BalanceChanged" THEN [ acc EXCEPT !.balance = acc.balance + 2 ]
    ELSE [ acc EXCEPT !.nonce = acc.nonce + 1 ]

\* the account a write to an empty slot creates
created(kind) ==
    IF kind = "BalanceChanged" THEN Account(0, 0, 3) ELSE Account(1, 0, 0)

ExistingAccounts == { Account(1, 0, 6), Account(2, 1, 0) }

\* the key of the leaf occupying the slot of key in a type-1 proof: it shares
\* the first n - 1 bits with key and differs in bit n - 1
other_leaf_key(key, n) ==
    IF KeyBit(key, n - 1) = 1 THEN key - Pow2(n - 1) ELSE key + Pow2(n - 1)

other_leaf_data == hash(7, 7)

real_sibs(n) == [ k \in 1..n |-> sibling_at(k) ]

existing_update(kind, address, n, acc) ==
    LET key == account_key(address)
        new == updated(kind, acc)
    IN make_proof([ kind |-> kind, address |-> address,
           oldkey |-> key, newkey |-> key,
           old_account |-> Some(acc), new_account |-> Some(new),
           old_data |-> Some(account_data_hash(acc)),
           new_data |-> Some(account_data_hash(new)),
           sibs |-> real_sibs(n),
           dold |-> n, oldleaf |-> leaf_hash(key, account_data_hash(acc)),
           dnew |-> n, newleaf |-> leaf_hash(key, account_data_hash(new)) ])

type_2_write(kind, address, n) ==
    LET key == account_key(address)
        new == created(kind)
    IN make_proof([ kind |-> kind, address |-> address,
           oldkey |-> key, newkey |-> key,
           old_account |-> None, new_account |-> Some(new),
           old_data |-> None,
           new_data |-> Some(account_data_hash(new)),
           sibs |-> real_sibs(n),
           dold |-> n, oldleaf |-> 0,
           dnew |-> n, newleaf |-> leaf_hash(key, account_data_hash(new)) ])

\* the other leaf sits at depth d < n in the old trie and at depth n, as the
\* sibling of the new leaf, in the new one
type_1_write(kind, address, n, d) ==
    LET key == account_key(address)
        new == created(kind)
        other == other_leaf_key(key, n)
        otherleaf == leaf_hash(other, other_leaf_data)
    IN make_proof([ kind |-> kind, address |-> address,
           oldkey |-> other, newkey |-> key,
           old_account |-> None, new_account |-> Some(new),
           old_data |-> Some(other_leaf_data),
           new_data |-> Some(account_data_hash(new)),
           sibs |-> [ k \in 1..n |->
                        IF k <= d THEN sibling_at(k)
                        ELSE IF k < n THEN 0 ELSE otherleaf ],
           dold |-> d, oldleaf |-> otherleaf,
           dnew |-> n, newleaf |-> leaf_hash(key, account_data_hash(new)) ])

\* the same trie change undone: old and new sides exchanged
reversed(proof) ==
    [ proof EXCEPT
        !.claim = [ proof.claim EXCEPT
                      !.old_root = proof.claim.new_root,
                      !.new_root = proof.claim.old_root,
                      !.old_value = proof.claim.new_value,
                      !.new_value = proof.claim.old_value ],
        !.old = proof.new, !.new = proof.old,
        !.old_account = proof.new_account,
        !.new_account = proof.old_account,
        !.address_hash_traces =
            [ i \in 1..Len(proof.address_hash_traces) |->
                LET s == proof.address_hash_traces[i]
                IN [ s EXCEPT !.old_hash = s.new_hash, !.new_hash = s.old_hash,
                              !.is_padding_open = s.is_padding_close,
                              !.is_padding_close = s.is_padding_open ] ] ]

Kinds == { "NonceChanged", "BalanceChanged" }

ExistingUpdates ==
    { existing_update(kind, a, n, acc) :
        kind \in Kinds, a \in Addresses, n \in 0..MaxDepth, acc \in ExistingAccounts }

Type2Writes ==
    { type_2_write(kind, a, n) : kind \in Kinds, a \in Addresses, n \in 0..MaxDepth }

Type1Writes ==
    UNION { { type_1_write(kind, a, n, d) : d \in 0..(n - 1) } :
              kind \in Kinds, a \in Addresses, n \in 1..MaxDepth }

\* the valid claims the tests cover (nonce_* and balance_* tests)
ValidWrites == ExistingUpdates \cup Type2Writes \cup Type1Writes

Deletions == { reversed(p) : p \in Type2Writes \cup Type1Writes }

(***************************************************************************)
(* Claims that are not valid: one field of a valid proof replaced.         *)
(***************************************************************************)
with_trace(proof, i, field, v) ==
    [ proof EXCEPT !.address_hash_traces[i][field] = v ]

corrupted(proof) ==
    LET tr == proof.address_hash_traces
    IN UNION { { with_trace(proof, i, f, 0) : f \in { "old_hash", "new_hash", "sibling" } }
               \cup { with_trace(proof, i, f, Add(tr[i][f], 1)) :
                        f \in { "old_hash", "new_hash", "sibling" } }
               \cup { with_trace(proof, i, "direction", 1 - tr[i].direction),
                      with_trace(proof, i, "is_padding_open", ~tr[i].is_padding_open),
                      with_trace(proof, i, "is_padding_close", ~tr[i].is_padding_close),
                      [ proof EXCEPT !.address_hash_traces[i].is_padding_open = TRUE,
                                     !.address_hash_traces[i].is_padding_close = TRUE ] }
               : i \in 1..Len(tr) }
       \cup { [ proof EXCEPT !.claim.old_root = Add(@, 1) ],
              [ proof EXCEPT !.claim.new_root = Add(@, 1) ],
              [ proof EXCEPT !.claim.old_value = Add(@, 1) ],
              [ proof EXCEPT !.claim.new_value = Add(@, 1) ],
              [ proof EXCEPT !.old.key = Add(@, 1) ],
              [ proof EXCEPT !.new.key = Add(@, 1) ],
              [ proof EXCEPT !.old.key = Add(@, 1), !.new.key = Add(@, 2) ],
              [ proof EXCEPT !.old.key = Add(proof.old.key, 1),
                             !.new.key = Add(proof.old.key, 1) ],
              [ proof EXCEPT !.old.leaf_data_hash = None ],
              [ proof EXCEPT !.claim.kind = "CodeHashExists" ] }

\* an update whose step at depth 1 is flagged as padding on the old side, the
\* old root being the hash of that step: no trie has this path, yet every
\* assertion of assign passes on it
skipped_level(proof) ==
    LET tr == proof.address_hash_traces
    IN [ proof EXCEPT !.address_hash_traces[Len(tr)].is_padding_open = TRUE,
                      !.claim.old_root = tr[Len(tr)].old_hash ]

SkippedLevels ==
    { skipped_level(p) :
        p \in { q \in ExistingUpdates : Len(q.address_hash_traces) >= 2 } }

\* a claim that leaves an empty slot empty: both sides end in an empty node
empty_read(kind, address, n) ==
    LET key == account_key(address)
    IN make_proof([ kind |-> kind, address |-> address,
           oldkey |-> key, newkey |-> key,
           old_account |-> None, new_account |-> None,
           old_data |-> None, new_data |-> None,
           sibs |-> real_sibs(n),
           dold |-> n, oldleaf |-> 0,
           dnew |-> n, newleaf |-> 0 ])

EmptyReads ==
    { empty_read(kind, a, n) : kind \in Kinds, a \in Addresses, n \in 1..MaxDepth }

\* a one-step proof whose step is flagged as padding on the old side and has
\* both hashes empty, the roots being those its step folds to: no trie has
\* this path, yet every assertion of assign passes on it
hollow_extension(kind, address) ==
    LET p == type_2_write(kind, address, 1)
        step == p.address_hash_traces[1]
    IN [ p EXCEPT !.address_hash_traces[1].is_padding_open = TRUE,
                  !.address_hash_traces[1].new_hash = 0,
                  !.claim.old_root = 0,
                  !.claim.new_root =
                      IF step.direction = 1 THEN hash(step.sibling, 0)
                      ELSE hash(0, step.sibling) ]

HollowExtensions == { hollow_extension(kind, a) : kind \in Kinds, a \in Addresses }

\* a NonceChanged claim on a trie change that is not a nonce update: the
\* account's nonce goes from the largest 8-byte value to 0 and its code size
\* from 0 to 1
code_size_change(address, n) ==
    LET key == account_key(address)
        old == Account(Pow2(Scaled(64)) - 1, 0, 0)
        new == Account(0, 1, 0)
    IN make_proof([ kind |-> "NonceChanged", address |-> address,
           oldkey |-> key, newkey |-> key,
           old_account |-> Some(old), new_account |-> Some(new),
           old_data |-> Some(account_data_hash(old)),
           new_data |-> Some(account_data_hash(new)),
           sibs |-> real_sibs(n),
           dold |-> n, oldleaf |-> leaf_hash(key, account_data_hash(old)),
           dnew |-> n, newleaf |-> leaf_hash(key, account_data_hash(new)) ])

CodeSizeChanges == { code_size_change(a, n) : a \in Addresses, n \in 1..MaxDepth }

AllProofs ==
    ValidWrites \cup Deletions
    \cup UNION { corrupted(p) : p \in ValidWrites \cup Deletions }
    \cup SkippedLevels \cup EmptyReads \cup HollowExtensions \cup CodeSizeChanges

\* the batches assign is run on
Batches ==
    { << >> } \cup { << p >> : p \in AllProofs }
    \cup IF MaxProofs < 2 THEN { }
         ELSE { << p, q >> : p \in ValidWrites, q \in ValidWrites }
              \cup { << p, q >> : p \in EmptyReads, q \in ValidWrites }

(***************************************************************************)
(* The region: one row per offset, one cell per column of MptUpdateConfig. *)
(* A cell never assigned reads as zero; a zero OneHot is its first variant.*)
(* The IsZeroGadget and IsEqualGadget cells hold the inverse assigned.     *)
(***************************************************************************)
ZeroRow ==
    [ proof_type |-> MPTProofTypes[1], segment_type |-> SegmentTypes[1],
      path_type |-> PathTypes[1],
      old_hash |-> 0, new_hash |-> 0, old_value |-> 0, new_value |-> 0,
      address |-> 0, storage_key_rlc |-> 0, depth |-> 0, key |-> 0,
      other_key |-> 0, other_key_hash |-> 0, other_leaf_data_hash |-> 0,
      direction |-> 0, sibling |-> 0, upper_128_bits |-> 0,
      old_hash_is_zero |-> 0, new_hash_is_zero |-> 0,
      old_hash_is_zero_account_hash |-> 0, new_hash_is_zero_account_hash |-> 0,
      key_equals_other_key |-> 0 ]

Columns == DOMAIN ZeroRow

RegionRows == MaxProofs * (1 + MaxDepth + LeafRows)

Offsets == 0..(RegionRows - 1)

\* AdviceColumn::assign and OneHot::assign at one offset, for the cells of upd
assign_cells(reg, off, upd) ==
    [ reg EXCEPT ![off] =
        [ c \in Columns |-> IF c \in DOMAIN upd THEN upd[c] ELSE @[c] ] ]

\* IsZeroGadget::assign: the inverse of the value
is_zero_assign_value(value) == value

is_zero_assign(value) == Inv(value)

\* IsEqualGadget::assign: the inverse of the difference
is_equal_assign(lhs, rhs) == Inv(Sub(lhs, rhs))

VARIABLES
    proofs,             \* the batch given to assign
    region,             \* the cells assigned so far
    emitted,            \* the rows wholly assigned so far, in order: proof, offset, cells
    offset,             \* assign's row offset
    pidx,               \* index in proofs of the proof being assigned
    pc,                 \* "proof", "trie", "leaf", "done" or "panic"
    depth,              \* trie steps of the current proof already assigned
    path_type,          \* assign's path_type local
    previous_old_hash,  \* assign's running hashes
    previous_new_hash,
    tampered            \* cells overwritten by the prover after assign

vars ==
    << proofs, region, emitted, offset, pidx, pc, depth, path_type,
       previous_old_hash, previous_new_hash, tampered >>

Init ==
    /\ proofs \in Batches
    /\ region = [ o \in Offsets |-> ZeroRow ]
    /\ emitted = << >>
    /\ offset = 0
    /\ pidx = 1
    /\ pc = "proof"
    /\ depth = 0
    /\ path_type = "Start"
    /\ previous_old_hash = 0
    /\ previous_new_hash = 0
    /\ tampered = 0

(***************************************************************************)
(* MptUpdateConfig::assign.                                                *)
(***************************************************************************)
other_key_choice_old_data(proof) ==
    LET key == account_key(proof.claim.address)
    IN IF proof.old.key # key
       THEN [ ok |-> (proof.new.key = key \/ proof.new.key = proof.old.key)
                     /\ proof.old.leaf_data_hash # None,
              other_key |-> proof.old.key,
              other_key_hash |-> proof.old.key_hash,
              other_leaf_data_hash |-> unwrap_or(proof.old.leaf_data_hash, 0) ]
       ELSE IF proof.new.key # key
       THEN [ ok |-> proof.old.key = key /\ proof.new.leaf_data_hash # None,
              other_key |-> proof.new.key,
              other_key_hash |-> proof.new.key_hash,
              other_leaf_data_hash |-> unwrap_or(proof.new.leaf_data_hash, 0) ]
       ELSE [ ok |-> TRUE,
              other_key |-> proof.old.key,
              other_key_hash |-> proof.old.key_hash,
              other_leaf_data_hash |-> unwrap_or(proof.old.leaf_data_hash, 0) ]

other_key_choice_unasserted(proof) ==
    LET key == account_key(proof.claim.address)
    IN IF proof.old.key # key
       THEN [ ok |-> proof.old.leaf_data_hash # None,
              other_key |-> proof.old.key,
              other_key_hash |-> proof.old.key_hash,
              other_leaf_data_hash |-> unwrap_or(proof.old.leaf_data_hash, 0) ]
       ELSE IF proof.new.key # key
       THEN [ ok |-> proof.new.leaf_data_hash # None,
              other_key |-> proof.new.key,
              other_key_hash |-> proof.new.key_hash,
              other_leaf_data_hash |-> unwrap_or(proof.new.leaf_data_hash, 0) ]
       ELSE [ ok |-> TRUE,
              other_key |-> proof.old.key,
              other_key_hash |-> proof.old.key_hash,
              other_leaf_data_hash |-> unwrap_or(proof.new.leaf_data_hash, 0) ]

\* (other_key, other_key_hash, other_leaf_data_hash), and whether the
\* assertions and unwraps choosing them pass
other_key_choice(proof) ==
    LET key == account_key(proof.claim.address)
    IN IF proof.old.key # key
       THEN [ ok |-> (proof.new.key = key \/ proof.new.key = proof.old.key)
                     /\ proof.old.leaf_data_hash # None,
              other_key |-> proof.old.key,
              other_key_hash |-> proof.old.key_hash,
              other_leaf_data_hash |-> unwrap_or(proof.old.leaf_data_hash, 0) ]
       ELSE IF proof.new.key # key
       THEN [ ok |-> proof.old.key = key /\ proof.new.leaf_data_hash # None,
              other_key |-> proof.new.key,
              other_key_hash |-> proof.new.key_hash,
              other_leaf_data_hash |-> unwrap_or(proof.new.leaf_data_hash, 0) ]
       ELSE [ ok |-> TRUE,
              other_key |-> proof.old.key,
              other_key_hash |-> proof.old.key_hash,
              other_leaf_data_hash |-> unwrap_or(proof.new.leaf_data_hash, 0) ]

\* the cells written on each of the proof's n_rows rows
claim_cells(proof) ==
    LET c == other_key_choice(proof)
    IN [ proof_type |-> proof.claim.kind,
         address |-> address_to_fr(proof.claim.address),
         storage_key_rlc |-> proof.claim.storage_key,
         old_value |-> proof.claim.old_value,
         new_value |-> proof.claim.new_value,
         other_key |-> c.other_key,
         other_key_hash |-> c.other_key_hash,
         other_leaf_data_hash |-> c.other_leaf_data_hash ]

RECURSIVE assign_claim_cells_old_value_on_start(_, _, _, _)
assign_claim_cells_old_value_on_start(reg, off, n, cells) ==
    IF n = 0 THEN reg
    ELSE assign_claim_cells_old_value_on_start(
             assign_cells(reg, off + n - 1,
                          IF n = 1 THEN cells ELSE [ cells EXCEPT !.old_value = 0 ]),
             off, n - 1, cells)

RECURSIVE assign_claim_cells(_, _, _, _)
assign_claim_cells(reg, off, n, cells) ==
    IF n = 0 THEN reg
    ELSE assign_claim_cells(assign_cells(reg, off + n - 1, cells), off, n - 1, cells)

\* record union: the cells of a and of b
cells(a, b) ==
    [ c \in DOMAIN a \cup DOMAIN b |-> IF c \in DOMAIN b THEN b[c] ELSE a[c] ]

\* the hash cells and their IsZero / IsEqual gadget cells
hash_cells(old_hash, new_hash) ==
    [ old_hash |-> old_hash,
      old_hash_is_zero |-> is_zero_assign(old_hash),
      old_hash_is_zero_account_hash |-> is_equal_assign(old_hash, ZERO_ACCOUNT_HASH),
      new_hash |-> new_hash,
      new_hash_is_zero |-> is_zero_assign(new_hash),
      new_hash_is_zero_account_hash |-> is_equal_assign(new_hash, ZERO_ACCOUNT_HASH) ]

\* the start row of a proof
start_cells(proof) ==
    cells(hash_cells(proof.claim.old_root, proof.claim.new_root),
          [ segment_type |-> "Start", path_type |-> "Start",
            key_equals_other_key |->
                is_equal_assign(0, other_key_choice(proof).other_key) ])

\* the record of one row assigned for proof who at offset off
emit(who, off, row_cells) == [ proof |-> who, offset |-> off, cells |-> row_cells ]

trie_path_type_both_as_common(step) ==
    IF ~step.is_padding_open /\ step.is_padding_close THEN "ExtensionOld"
    ELSE IF step.is_padding_open /\ ~step.is_padding_close THEN "ExtensionNew"
    ELSE "Common"

\* the path type of a trie step, from its padding flags
trie_path_type(step) ==
    IF ~step.is_padding_open /\ ~step.is_padding_close THEN "Common"
    ELSE IF ~step.is_padding_open /\ step.is_padding_close THEN "ExtensionOld"
    ELSE IF step.is_padding_open /\ ~step.is_padding_close THEN "ExtensionNew"
    ELSE "unreachable"

hash_of_children_swapped(direction, sibling, h) ==
    IF direction = 1 THEN hash(h, sibling) ELSE hash(sibling, h)

hash_of_children(direction, sibling, h) ==
    IF direction = 1 THEN hash(sibling, h) ELSE hash(h, sibling)

trie_step_ok_old_side_only(step, pt, poh, pnh) ==
    CASE pt = "Common" ->
            hash_of_children(step.direction, step.sibling, step.old_hash) = poh
      [] pt = "ExtensionOld" ->
            hash_of_children(step.direction, step.sibling, step.old_hash) = poh
      [] pt = "ExtensionNew" ->
            step.old_hash = poh
      [] OTHER -> FALSE

\* the assertions of one trie step against the running hashes
trie_step_ok(step, pt, poh, pnh) ==
    CASE pt = "Common" ->
            /\ hash_of_children(step.direction, step.sibling, step.old_hash) = poh
            /\ hash_of_children(step.direction, step.sibling, step.new_hash) = pnh
      [] pt = "ExtensionOld" ->
            /\ step.new_hash = pnh
            /\ hash_of_children(step.direction, step.sibling, step.old_hash) = poh
      [] pt = "ExtensionNew" ->
            /\ step.old_hash = poh
            /\ hash_of_children(step.direction, step.sibling, step.new_hash) = pnh
      [] OTHER -> FALSE

\* the running hashes after a trie step
next_previous_old_hash(step, pt, poh) ==
    IF pt \in { "Common", "ExtensionOld" } THEN step.old_hash ELSE poh

next_previous_new_hash(step, pt, pnh) ==
    IF pt \in { "Common", "ExtensionNew" } THEN step.new_hash ELSE pnh

trie_cells_path_common(proof, step, d, pt) ==
    LET key == account_key(proof.claim.address)
    IN cells(hash_cells(step.old_hash, step.new_hash),
             [ depth |-> d, segment_type |-> "AccountTrie", path_type |-> "Common",
               sibling |-> step.sibling, direction |-> step.direction,
               key |-> key,
               key_equals_other_key |->
                   is_equal_assign(key, other_key_choice(proof).other_key) ])

trie_cells_depth_from_zero(proof, step, d, pt) ==
    LET key == account_key(proof.claim.address)
    IN cells(hash_cells(step.old_hash, step.new_hash),
             [ depth |-> d - 1, segment_type |-> "AccountTrie", path_type |-> pt,
               sibling |-> step.sibling, direction |-> step.direction,
               key |-> key,
               key_equals_other_key |->
                   is_equal_assign(key, other_key_choice(proof).other_key) ])

trie_cells(proof, step, d, pt) ==
    LET key == account_key(proof.claim.address)
    IN cells(hash_cells(step.old_hash, step.new_hash),
             [ depth |-> d, segment_type |-> "AccountTrie", path_type |-> pt,
               sibling |-> step.sibling, direction |-> step.direction,
               key |-> key,
               key_equals_other_key |->
                   is_equal_assign(key, other_key_choice(proof).other_key) ])

\* the assertions inside the path_type match, which run before the row's
\* path_type, sibling, hash, direction and key cells are assigned
path_type_match_ok(step, pt, poh, pnh) ==
    CASE pt = "Common" -> TRUE
      [] pt = "ExtensionOld" -> step.new_hash = pnh
      [] pt = "ExtensionNew" -> step.old_hash = poh
      [] OTHER -> FALSE

\* the cells of a trie row assigned before the path_type match
cells_before_match(d) == [ depth |-> d, segment_type |-> "AccountTrie" ]

leaf_segment_types ==
    << "AccountLeaf0", "AccountLeaf1", "AccountLeaf2", "AccountLeaf3",
       "AccountLeaf4" >>

leaf_path_type_swapped(pt, final_old_hash, final_new_hash) ==
    IF pt = "Common"
    THEN IF final_old_hash = 0 /\ final_new_hash = 0 THEN "continue"
         ELSE IF final_old_hash = 0 THEN "ExtensionOld"
         ELSE IF final_new_hash = 0 THEN "ExtensionNew"
         ELSE "Common"
    ELSE pt

leaf_path_type_from_hashes(pt, final_old_hash, final_new_hash) ==
    IF pt = "Common" /\ final_old_hash = 0 /\ final_new_hash = 0 THEN "continue"
    ELSE IF final_old_hash = 0 THEN "ExtensionNew"
    ELSE IF final_new_hash = 0 THEN "ExtensionOld"
    ELSE "Common"

leaf_path_type_skips_any(pt, final_old_hash, final_new_hash) ==
    IF final_old_hash = 0 /\ final_new_hash = 0 THEN "continue"
    ELSE IF pt # "Common" THEN pt
    ELSE IF final_old_hash = 0 THEN "ExtensionNew"
    ELSE IF final_new_hash = 0 THEN "ExtensionOld"
    ELSE "Common"

leaf_path_type_carried(pt, final_old_hash, final_new_hash) ==
    IF pt = "Common" /\ final_old_hash = 0 /\ final_new_hash = 0 THEN "continue"
    ELSE pt

\* the path type of the leaf rows, or "continue" when none are assigned
leaf_path_type(pt, final_old_hash, final_new_hash) ==
    IF pt = "Common"
    THEN IF final_old_hash = 0 /\ final_new_hash = 0 THEN "continue"
         ELSE IF final_old_hash = 0 THEN "ExtensionNew"
         ELSE IF final_new_hash = 0 THEN "ExtensionOld"
         ELSE "Common"
    ELSE pt

leaf_directions_of_nonce(proof_type) ==
    IF proof_type \in { "NonceChanged", "BalanceChanged" } THEN << 1, 0, 0, 0 >>
    ELSE << >>

leaf_directions_short(proof_type) ==
    IF proof_type = "NonceChanged" THEN << 1, 0, 0 >>
    ELSE IF proof_type = "BalanceChanged" THEN << 1, 0, 0 >>
    ELSE << >>

\* the direction of each leaf row; empty when the kind is unimplemented
leaf_directions(proof_type) ==
    IF proof_type = "NonceChanged" THEN << 1, 0, 0, 0 >>
    ELSE IF proof_type = "BalanceChanged" THEN << 1, 0, 0, 1 >>
    ELSE << >>

Min(S) == CHOOSE x \in S : \A y \in S : x <= y

\* izip! stops with its shortest sequence
izip_len(a, b, c, d, e) == Min({ Len(a), Len(b), Len(c), Len(d), Len(e) })

RECURSIVE assign_leaf_rows(_, _, _, _, _)
assign_leaf_rows(reg, off, i, n, rows) ==
    IF i = n THEN reg
    ELSE assign_leaf_rows(assign_cells(reg, off + i, rows[i + 1]), off, i + 1, n, rows)

\* the offset left to the next proof after the leaf rows are assigned
offset_after_leaf_rows(off, n) == off

\* the body of `for proof in proofs` up to the trie walk: the claim's columns
\* on n_rows rows, then the start row
AssignProof ==
    /\ pc = "proof"
    /\ pidx <= Len(proofs)
    /\ LET proof == proofs[pidx]
       IN IF ~other_key_choice(proof).ok
          THEN /\ pc' = "panic"
               /\ UNCHANGED << region, emitted, offset, depth, path_type,
                               previous_old_hash, previous_new_hash >>
          ELSE /\ region' =
                     assign_cells(
                         assign_claim_cells(region, offset, n_rows(proof),
                                            claim_cells(proof)),
                         offset, start_cells(proof))
               /\ emitted' = Append(emitted, emit(pidx, offset, start_cells(proof)))
               /\ offset' = offset + 1
               /\ path_type' = "Start"
               /\ previous_old_hash' = proof.claim.old_root
               /\ previous_new_hash' = proof.claim.new_root
               /\ depth' = 0
               /\ pc' = "trie"
    /\ UNCHANGED << proofs, pidx, tampered >>

\* one iteration of the walk over address_hash_traces.iter().rev()
AssignTrieRow ==
    /\ pc = "trie"
    /\ depth < Len(proofs[pidx].address_hash_traces)
    /\ LET proof == proofs[pidx]
           step == Reverse(proof.address_hash_traces)[depth + 1]
           pt == trie_path_type(step)
       IN IF ~trie_step_ok(step, pt, previous_old_hash, previous_new_hash)
          THEN /\ pc' = "panic"
               /\ region' = assign_cells(region, offset,
                     IF path_type_match_ok(step, pt, previous_old_hash,
                                           previous_new_hash)
                     THEN trie_cells(proof, step, depth + 1, pt)
                     ELSE cells_before_match(depth + 1))
               /\ UNCHANGED << emitted, offset, depth, path_type,
                               previous_old_hash, previous_new_hash >>
          ELSE /\ region' = assign_cells(region, offset,
                                         trie_cells(proof, step, depth + 1, pt))
               /\ emitted' = Append(emitted,
                     emit(pidx, offset, trie_cells(proof, step, depth + 1, pt)))
               /\ path_type' = pt
               /\ previous_old_hash' = next_previous_old_hash(step, pt, previous_old_hash)
               /\ previous_new_hash' = next_previous_new_hash(step, pt, previous_new_hash)
               /\ offset' = offset + 1
               /\ depth' = depth + 1
               /\ pc' = "trie"
    /\ UNCHANGED << proofs, pidx, tampered >>

\* the rest of the loop body: the leaf rows, or `continue` without them
AssignLeafRows ==
    /\ pc = "trie"
    /\ depth = Len(proofs[pidx].address_hash_traces)
    /\ LET proof == proofs[pidx]
           traces == proof.address_hash_traces
           final == traces[1]
           lpt == IF Len(traces) = 0 THEN "continue"
                  ELSE leaf_path_type(path_type, final.old_hash, final.new_hash)
           directions == leaf_directions(proof.claim.kind)
           old_hashes == unwrap_or(old_account_leaf_hashes(proof),
                                   [ i \in 1..4 |-> final.old_hash ])
           new_hashes == unwrap_or(new_account_leaf_hashes(proof),
                                   [ i \in 1..4 |-> final.new_hash ])
           siblings == account_leaf_siblings(proof)
           n == izip_len(leaf_segment_types, siblings, old_hashes, new_hashes,
                         directions)
           rows == [ i \in 1..n |->
                       cells(hash_cells(old_hashes[i], new_hashes[i]),
                             [ segment_type |-> leaf_segment_types[i],
                               path_type |-> lpt,
                               sibling |-> siblings[i],
                               direction |-> directions[i],
                               key_equals_other_key |->
                                   is_equal_assign(0, other_key_choice(proof).other_key) ]) ]
       IN IF lpt = "continue"
          THEN /\ pc' = "proof"
               /\ pidx' = pidx + 1
               /\ UNCHANGED << region, emitted, offset, path_type >>
          ELSE IF directions = << >>
          THEN /\ pc' = "panic"
               /\ UNCHANGED << region, emitted, offset, pidx, path_type >>
          ELSE /\ region' =
                     assign_cells(
                         assign_leaf_rows(region, offset, 0, n, rows),
                         offset,
                         [ upper_128_bits |-> address_high(proof.claim.address) ])
               /\ emitted' = emitted \o [ i \in 1..n |-> emit(pidx, offset + i - 1, rows[i]) ]
               /\ path_type' = lpt
               /\ offset' = offset_after_leaf_rows(offset, n)
               /\ pidx' = pidx + 1
               /\ pc' = "proof"
    /\ UNCHANGED << proofs, depth, previous_old_hash, previous_new_hash, tampered >>

\* `for proof in proofs` is exhausted: assign returns
AssignReturn ==
    /\ pc = "proof"
    /\ pidx > Len(proofs)
    /\ pc' = "done"
    /\ UNCHANGED << proofs, region, emitted, offset, pidx, depth, path_type,
                    previous_old_hash, previous_new_hash, tampered >>

Next == AssignProof \/ AssignTrieRow \/ AssignLeafRows \/ AssignReturn

Spec == Init /\ [][Next]_vars

(***************************************************************************)
(* The prover.  Once assign has returned, a prover is free to put any      *)
(* value in any cell before the constraints are checked; the model lets it *)
(* leave out the leaf rows and overwrite up to MaxTamper cells of the rows *)
(* of a batch of at most one well-formed proof.                            *)
(***************************************************************************)
TamperOffsets == 0..(1 + MaxDepth + LeafRows)

TamperValues(c) ==
    CASE c = "segment_type" -> Range(SegmentTypes)
      [] c = "path_type" -> Range(PathTypes)
      [] c = "proof_type" -> Range(MPTProofTypes)
      [] OTHER -> { 0, 1, 2, Pow2(Scaled(64)) }

Tamper ==
    /\ pc = "done"
    /\ tampered < MaxTamper
    /\ \A i \in 1..Len(proofs) :
          i = 1 /\ proofs[i] \in ValidWrites \cup Deletions \cup CodeSizeChanges
    /\ \E o \in TamperOffsets, c \in Columns :
          \E v \in TamperValues(c) :
             /\ region[o][c] # v
             /\ region' = [ region EXCEPT ![o][c] = v ]
    /\ tampered' = tampered + 1
    /\ UNCHANGED << proofs, emitted, offset, pidx, pc, depth, path_type,
                    previous_old_hash, previous_new_hash >>

\* the prover leaves out the leaf rows: every row after the last trie row
\* of the proof is left unassigned
DropLeafRows ==
    /\ pc = "done"
    /\ tampered = 0
    /\ Len(proofs) = 1
    /\ proofs[1] \in ValidWrites \cup Deletions
    /\ region' = [ o \in Offsets |->
                     IF o > Len(proofs[1].address_hash_traces) THEN ZeroRow
                     ELSE region[o] ]
    /\ region' # region
    /\ UNCHANGED << proofs, emitted, offset, pidx, pc, depth, path_type,
                    previous_old_hash, previous_new_hash, tampered >>

ProverNext == Next \/ Tamper \/ DropLeafRows

ProverSpec == Init /\ [][ProverNext]_vars

(***************************************************************************)
(* MptUpdateConfig::configure.  Each configure operator yields the labels  *)
(* of the constraints and lookups it registers that the rows (prev, cur,   *)
(* next) violate.  T holds the lookup relations: the oracle relations when *)
(* T.oracle, else the finite tables T.poseidon, T.key_bit and T.bytes.     *)
(***************************************************************************)
failed(label, holds) == IF holds THEN { } ELSE { label }

poseidon_lookup(T, left, right, h) ==
    IF T.oracle THEN h = hash(left, right) ELSE << left, right, h >> \in T.poseidon

key_bit_lookup(T, key, index, bit) ==
    IF T.oracle THEN index < Scaled(256) /\ bit = KeyBit(key, index)
    ELSE << key, index, bit >> \in T.key_bit

bytes_lookup(T, value, n) ==
    IF T.oracle THEN FitsBytes(value, n) ELSE << value, n >> \in T.bytes

Oracle == [ oracle |-> TRUE ]

\* OneHot::current_matches
current_matches(value, variants) == value \in variants

\* IsZeroGadget::current / IsEqualGadget::current: 1 - value * inverse
gadget_current(value, inverse) == Sub(1, Mul(value, inverse)) = 1

\* the gadget's own constraint: value * (1 - value * inverse) = 0
gadget_constraint(value, inverse) == Mul(value, Sub(1, Mul(value, inverse))) = 0

is_trie_storage_only(row) ==
    current_matches(row.segment_type, { "StorageTrie" })

is_trie(row) ==
    current_matches(row.segment_type, { "AccountTrie", "StorageTrie" })

old_left(row) ==
    Add(Mul(row.direction, row.sibling), Mul(Sub(1, row.direction), row.old_hash))

old_right(row) ==
    Add(Mul(row.direction, row.old_hash), Mul(Sub(1, row.direction), row.sibling))

new_left(row) ==
    Add(Mul(row.direction, row.sibling), Mul(Sub(1, row.direction), row.new_hash))

new_right(row) ==
    Add(Mul(row.direction, row.new_hash), Mul(Sub(1, row.direction), row.sibling))

non_trie_rows_key_only(cur) ==
    failed("key is 0 in non-trie segments", cur.key = 0)

\* the constraints under the condition !is_trie
non_trie_rows(cur) ==
    failed("key is 0 in non-trie segments", cur.key = 0)
    \cup failed("depth is 0 in non-trie segments", cur.depth = 0)

\* the constraints configure registers itself, before the per-variant ones
configure_rows(T, prev, cur, next) ==
    ( IF is_trie(cur)
      THEN failed("direction is correct for key and depth",
                  key_bit_lookup(T, cur.key, Sub(cur.depth, 1), cur.direction))
           \cup failed("depth increases by 1 in trie segments",
                       cur.depth = Add(prev.depth, 1))
           \cup ( IF current_matches(cur.path_type, { "Common" })
                  THEN failed("direction is correct for other_key and depth",
                              key_bit_lookup(T, cur.other_key, Sub(cur.depth, 1),
                                             cur.direction))
                  ELSE { } )
      ELSE non_trie_rows(cur) )
    \cup failed("upper_128_bits is 16 bytes", bytes_lookup(T, cur.upper_128_bits, 15))
    \cup failed("old_hash_is_zero",
                gadget_constraint(cur.old_hash, cur.old_hash_is_zero))
    \cup failed("new_hash_is_zero",
                gadget_constraint(cur.new_hash, cur.new_hash_is_zero))
    \cup failed("old_hash_is_zero_account_hash",
                gadget_constraint(Sub(cur.old_hash, ZERO_ACCOUNT_HASH),
                                  cur.old_hash_is_zero_account_hash))
    \cup failed("new_hash_is_zero_account_hash",
                gadget_constraint(Sub(cur.new_hash, ZERO_ACCOUNT_HASH),
                                  cur.new_hash_is_zero_account_hash))
    \cup failed("key_equals_other_key",
                gadget_constraint(Sub(cur.key, cur.other_key), cur.key_equals_other_key))

\* the backward transitions of segment.rs and path.rs: registered only in a
\* comment of configure, so none of them is a constraint
backward_transitions(T, prev, cur, next) == { }

configure_common_path(T, prev, cur, next) ==
    failed("poseidon hash correct for old common path",
           poseidon_lookup(T, old_left(cur), old_right(cur), prev.old_hash))
    \cup failed("poseidon hash correct for new common path",
                poseidon_lookup(T, new_left(cur), new_right(cur), prev.new_hash))
    \cup ( IF current_matches(next.path_type, { "ExtensionNew" })
              /\ current_matches(next.segment_type, { "AccountLeaf0" })
           THEN failed("old hash is zero for type 2 empty account", cur.old_hash = 0)
           ELSE { } )
    \cup ( IF current_matches(next.path_type, { "ExtensionOld" })
              /\ current_matches(next.segment_type, { "AccountLeaf0" })
           THEN failed("new hash is zero for type 2 empty account", cur.new_hash = 0)
           ELSE { } )

old_extension_sibling_unregistered(cur, next) == { }

\* the sibling constraints of configure_extension_old; the one of the final
\* trie segment is a TODO
old_extension_sibling(cur, next) ==
    LET is_final_trie_segment == is_trie(cur) /\ ~is_trie(next)
    IN IF ~is_final_trie_segment
       THEN failed("sibling is zero for non-final old extension path segments",
                   cur.sibling = 0)
       ELSE { }

configure_extension_old(T, prev, cur, next) ==
    old_extension_sibling(cur, next)
    \cup failed("new_hash unchanged for path_type=Old",
                cur.new_hash = prev.new_hash)

old_hash_unchanged_unregistered(prev, cur) == { }

old_hash_unchanged(prev, cur) ==
    failed("old_hash unchanged for path_type=New", cur.old_hash = prev.old_hash)

other_leaf_lookup_unregistered(T, prev, cur) == { }

\* the lookup under the condition !old_hash_is_zero on an AccountLeaf0 row
other_leaf_lookup(T, prev, cur) ==
    IF ~gadget_current(cur.old_hash, cur.old_hash_is_zero)
    THEN failed("previous old_hash = h(data_hash, key_hash)",
                poseidon_lookup(T, cur.other_key_hash, cur.other_leaf_data_hash,
                                prev.old_hash))
    ELSE { }

old_account_is_type_1_unregistered(cur) == { }

\* the constraint under the condition !key_equals_other_key on an
\* AccountLeaf0 row
old_account_is_type_1(cur) ==
    IF ~gadget_current(Sub(cur.key, cur.other_key), cur.key_equals_other_key)
    THEN failed("if old account is type 1, then old value is 0", cur.old_value = 0)
    ELSE { }

configure_extension_new(T, prev, cur, next) ==
    failed("old value is 0 if old account is empty", cur.old_value = 0)
    \cup ( IF is_trie(cur)
           THEN LET is_final_trie_segment == ~is_trie(next)
                IN IF ~is_final_trie_segment
                   THEN failed("sibling is zero for non-final new extension path segments",
                               cur.sibling = 0)
                   ELSE failed("sibling is old leaf hash for final new extension path segments",
                               cur.sibling = cur.old_hash)
           ELSE { } )
    \cup old_hash_unchanged(prev, cur)
    \cup failed("poseidon hash correct for new path",
                poseidon_lookup(T, new_left(cur), new_right(cur), prev.new_hash))
    \cup ( IF current_matches(cur.segment_type, { "AccountLeaf0" })
           THEN failed("other_key_hash = h(1, other_key)",
                       poseidon_lookup(T, 1, cur.other_key, cur.other_key_hash))
                \cup other_leaf_lookup(T, prev, cur)
                \cup old_account_is_type_1(cur)
           ELSE { } )

address_low_query_shifted_64(row) ==
    Mul(Sub(row.address, Mul(row.upper_128_bits, Pow2(Scaled(32)))), Pow2(Scaled(64)))

\* the in-circuit address_low: (address - upper_128_bits * 2^32) * 2^96
address_low_query(row) ==
    Mul(Sub(row.address, Mul(row.upper_128_bits, Pow2(Scaled(32)))), Pow2(Scaled(96)))

configure_account_leaf0_key_unchecked(T, prev, cur, next) ==
    failed("direction is 1", cur.direction = 1)
    \cup failed("sibling = h(1, key)", poseidon_lookup(T, 1, prev.key, cur.sibling))

\* the AccountLeaf0 constraints, the same for nonce and balance claims
configure_account_leaf0(T, prev, cur, next) ==
    failed("direction is 1", cur.direction = 1)
    \cup failed("key = h(address_high, address_low)",
                poseidon_lookup(T, cur.upper_128_bits, address_low_query(cur), prev.key))
    \cup failed("sibling = h(1, key)", poseidon_lookup(T, 1, prev.key, cur.sibling))

old_code_size(row) ==
    Mul(Sub(row.old_hash, row.old_value), Inv(Pow2(Scaled(64))))

new_code_size_from_old_side(row) ==
    Mul(Sub(row.old_hash, row.old_value), Inv(Pow2(Scaled(64))))

new_code_size(row) ==
    Mul(Sub(row.new_hash, row.new_value), Inv(Pow2(Scaled(64))))

assert_unreachable_unregistered(label) == { }

\* ConstraintBuilder::assert_unreachable: a constraint no row satisfies
assert_unreachable(label) == { label }

code_size_unchanged_unregistered(cur) == { }

code_size_unchanged(cur) ==
    failed("old_code_size = new_code_size for nonce update",
           old_code_size(cur) = new_code_size(cur))

configure_nonce(T, prev, cur, next) ==
    CASE cur.segment_type \in { "Start", "AccountTrie" } -> { }
      [] cur.segment_type = "AccountLeaf0" -> configure_account_leaf0(T, prev, cur, next)
      [] cur.segment_type \in { "AccountLeaf1", "AccountLeaf2" } ->
            failed("direction is 0", cur.direction = 0)
      [] cur.segment_type = "AccountLeaf3" ->
            failed("direction is 0", cur.direction = 0)
            \cup ( IF current_matches(cur.path_type, { "Common" })
                   THEN failed("old nonce is 8 bytes", bytes_lookup(T, cur.old_value, 7))
                        \cup failed("new nonce is 8 bytes",
                                    bytes_lookup(T, cur.old_value, 7))
                        \cup code_size_unchanged(cur)
                        \cup failed("existing code size is 8 bytes",
                                    bytes_lookup(T, old_code_size(cur), 7))
                   ELSE { } )
            \cup ( IF current_matches(cur.path_type, { "ExtensionNew" })
                   THEN failed("new nonce is 8 bytes", bytes_lookup(T, cur.old_value, 7))
                        \cup failed("code size is 0 for ExtensionNew nonce update",
                                    new_code_size(cur) = 0)
                   ELSE { } )
            \cup ( IF current_matches(cur.path_type, { "ExtensionOld" })
                   THEN failed("old nonce is 8 bytes", bytes_lookup(T, cur.old_value, 7))
                        \cup failed("code size is 0 for ExtensionOld nonce update",
                                    old_code_size(cur) = 0)
                   ELSE { } )
      [] OTHER -> assert_unreachable("unreachable segment type for nonce update")

new_hash_is_new_balance_unregistered(cur) == { }

\* the constraint under the condition Common or ExtensionNew on an
\* AccountLeaf3 row
new_hash_is_new_balance(cur) ==
    IF current_matches(cur.path_type, { "Common", "ExtensionNew" })
    THEN failed("new_hash is new balance", cur.new_value = cur.new_hash)
    ELSE { }

configure_balance(T, prev, cur, next) ==
    CASE cur.segment_type \in { "Start", "AccountTrie" } -> { }
      [] cur.segment_type = "AccountLeaf0" -> configure_account_leaf0(T, prev, cur, next)
      [] cur.segment_type \in { "AccountLeaf1", "AccountLeaf2" } ->
            failed("direction is 0", cur.direction = 0)
      [] cur.segment_type = "AccountLeaf3" ->
            failed("direction is 1", cur.direction = 1)
            \cup ( IF current_matches(cur.path_type, { "Common", "ExtensionOld" })
                   THEN failed("old_hash is old balance", cur.old_value = cur.old_hash)
                   ELSE { } )
            \cup new_hash_is_new_balance(cur)
      [] OTHER -> assert_unreachable("unreachable segment type for nonce update")

\* configure_code_hash, configure_empty_account, configure_self_destruct,
\* configure_storage and configure_empty_storage register nothing
configure_unimplemented(T, prev, cur, next) == { }

\* every constraint and lookup of configure that the row cur violates
configure(T, prev, cur, next) ==
    configure_rows(T, prev, cur, next)
    \cup backward_transitions(T, prev, cur, next)
    \cup ( CASE cur.path_type = "Common" -> configure_common_path(T, prev, cur, next)
             [] cur.path_type = "ExtensionOld" -> configure_extension_old(T, prev, cur, next)
             [] cur.path_type = "ExtensionNew" -> configure_extension_new(T, prev, cur, next)
             [] OTHER -> { } )
    \cup ( CASE cur.proof_type = "NonceChanged" -> configure_nonce(T, prev, cur, next)
             [] cur.proof_type = "BalanceChanged" -> configure_balance(T, prev, cur, next)
             [] OTHER -> configure_unimplemented(T, prev, cur, next) )

lookup_value_unmasked(row) ==
    LET is_start == IF current_matches(row.segment_type, { "Start" }) THEN 1 ELSE 0
    IN << row.proof_type,
          Mul(row.old_hash, is_start), Mul(row.new_hash, is_start),
          row.old_value, row.new_value,
          Mul(row.address, is_start), Mul(row.storage_key_rlc, is_start) >>

\* MptUpdateLookup::lookup: the tuple a row exposes to other circuits
lookup(row) ==
    LET is_start == IF current_matches(row.segment_type, { "Start" }) THEN 1 ELSE 0
    IN << row.proof_type,
          Mul(row.old_hash, is_start), Mul(row.new_hash, is_start),
          Mul(row.old_value, is_start), Mul(row.new_value, is_start),
          Mul(row.address, is_start), Mul(row.storage_key_rlc, is_start) >>

\* the rows around offset o; outside the region every cell is unassigned
row_at(reg, o) == IF o \in Offsets THEN reg[o] ELSE ZeroRow

violations(T, reg, o) ==
    configure(T, row_at(reg, o - 1), row_at(reg, o), row_at(reg, o + 1))

\* MockProver::verify
verify(T, reg) == \A o \in Offsets : violations(T, reg, o) = { }

(***************************************************************************)
(* The lookup tables the tests derive from the proofs (TestCircuit).       *)
(***************************************************************************)
\* Proof::old_account_hash_traces / new_account_hash_traces
account_hash_traces(account) ==
    IF account = None THEN { }
    ELSE LET acc == account[1]
         IN { << nonce_and_codesize(acc), acc.balance, account_h3(acc) >>,
              << account_h3(acc), acc.h2, account_h4(acc) >>,
              << account_h4(acc), acc.pch, account_data_hash(acc) >> }

proof_hash_traces(proof) ==
    UNION { ( IF ~step.is_padding_open
              THEN LET left == IF step.direction = 1 THEN step.sibling ELSE step.old_hash
                       right == IF step.direction = 1 THEN step.old_hash ELSE step.sibling
                   IN { << left, right, hash(left, right) >> }
              ELSE { } )
            \cup ( IF ~step.is_padding_close
                   THEN LET left == IF step.direction = 1 THEN step.sibling ELSE step.new_hash
                            right == IF step.direction = 1 THEN step.new_hash ELSE step.sibling
                        IN { << left, right, hash(left, right) >> }
                   ELSE { } )
            : step \in Range(proof.address_hash_traces) }
    \cup { << address_high(proof.claim.address), address_low(proof.claim.address),
              account_key(proof.claim.address) >>,
           << 1, proof.old.key, proof.old.key_hash >>,
           << 1, proof.new.key, proof.new.key_hash >> }
    \cup ( IF proof.old.leaf_data_hash # None
           THEN { << proof.old.key_hash, proof.old.leaf_data_hash[1],
                     hash(proof.old.key_hash, proof.old.leaf_data_hash[1]) >> }
           ELSE { } )
    \cup ( IF proof.new.leaf_data_hash # None
           THEN { << proof.new.key_hash, proof.new.leaf_data_hash[1],
                     hash(proof.new.key_hash, proof.new.leaf_data_hash[1]) >> }
           ELSE { } )
    \cup account_hash_traces(proof.old_account)
    \cup account_hash_traces(proof.new_account)

hash_traces(ps) ==
    { << 0, 0, 0 >> } \cup UNION { proof_hash_traces(ps[i]) : i \in 1..Len(ps) }

proof_key_bit_lookups(proof) ==
    LET steps == Reverse(proof.address_hash_traces)
    IN UNION { ( IF ~steps[i].is_padding_open
                 THEN { << proof.old.key, i - 1, steps[i].direction >> } ELSE { } )
               \cup ( IF ~steps[i].is_padding_close
                      THEN { << proof.new.key, i - 1, steps[i].direction >> } ELSE { } )
               : i \in 1..Len(steps) }

key_bit_lookups(ps) ==
    { << 0, 0, 0 >>, << 1, 0, 1 >> }
    \cup UNION { proof_key_bit_lookups(ps[i]) : i \in 1..Len(ps) }

account_u64s(account) ==
    IF account = None THEN { } ELSE { account[1].nonce, account[1].code_size }

byte_representations_without_zero(ps) ==
    LET u128s == { address_high(ps[i].claim.address) :
                     i \in { j \in 1..Len(ps) : ps[j].claim.kind \in Kinds } }
        u64s == UNION { account_u64s(ps[i].old_account) \cup account_u64s(ps[i].new_account) :
                          i \in { j \in 1..Len(ps) : ps[j].claim.kind = "NonceChanged" } }
    IN { << v, 15 >> : v \in u128s }
       \cup { << v \div Pow2(Scaled(64)), 7 >> : v \in u128s }
       \cup { << v, 7 >> : v \in u64s }

\* byte_representations: the (value, index) pairs of the u64s and u128s,
\* a value of 16 bytes also giving its upper 8 bytes at index 7
byte_representations(ps) ==
    LET u128s == { 0 } \cup { address_high(ps[i].claim.address) :
                               i \in { j \in 1..Len(ps) : ps[j].claim.kind \in Kinds } }
        u64s == UNION { account_u64s(ps[i].old_account) \cup account_u64s(ps[i].new_account) :
                          i \in { j \in 1..Len(ps) : ps[j].claim.kind = "NonceChanged" } }
    IN { << v, 15 >> : v \in u128s }
       \cup { << v \div Pow2(Scaled(64)), 7 >> : v \in u128s }
       \cup { << v, 7 >> : v \in u64s }

\* the relations of the test circuit for a batch
TestTables(ps) ==
    [ oracle |-> FALSE, poseidon |-> hash_traces(ps),
      key_bit |-> key_bit_lookups(ps), bytes |-> byte_representations(ps) ]

(***************************************************************************)
(* Properties.  rows_of(i) are the rows assign has emitted for the i-th    *)
(* proof of the batch, in the order it assigned them.                      *)
(***************************************************************************)
rows_of(i) == SelectSeq(emitted, LAMBDA e : e.proof = i)

trie_rows_of(i) == SelectSeq(rows_of(i), LAMBDA e : e.cells.segment_type = "AccountTrie")

leaf_rows_of(i) ==
    SelectSeq(rows_of(i), LAMBDA e : e.cells.segment_type \notin { "Start", "AccountTrie" })

\* assign has finished the i-th proof
completed(i) == i < pidx

\* a batch of one valid claim with an authentication path has been assigned
AssignedOneValidWrite ==
    /\ pc = "done"
    /\ tampered = 0
    /\ Len(proofs) = 1
    /\ proofs[1] \in ValidWrites
    /\ Len(proofs[1].address_hash_traces) >= 1

\* C1: for a valid NonceChanged or BalanceChanged claim (existing account,
\* type-1 or type-2 empty account) with an authentication path, the rows
\* assign produces satisfy every constraint and lookup of configure, the
\* lookup tables holding the entries derived from the claim.
C1_AssignedRowsSatisfyConfigure ==
    AssignedOneValidWrite => verify(TestTables(proofs), region)

C1_Witness ==
    /\ AssignedOneValidWrite
    /\ proofs[1] \in Type1Writes
    /\ proofs[1].claim.kind = "BalanceChanged"
    /\ Len(leaf_rows_of(1)) > 0
    /\ \E o \in Offsets : region[o].path_type = "ExtensionNew"
                           /\ region[o].segment_type = "AccountLeaf3"

\* C2: the claims of a batch are laid out at strictly increasing offsets:
\* every row of a claim is placed before every row of the claims after it,
\* so no offset is written for two claims.
C2_ClaimsLaidOutDisjoint ==
    \A i, j \in 1..Len(emitted) :
        emitted[i].proof < emitted[j].proof => emitted[i].offset < emitted[j].offset

\* C3: the rows emitted for a claim are one Start row (depth 0), then one
\* AccountTrie row per authentication step taken root-to-leaf, the k-th
\* with depth k, then the leaf rows AccountLeaf0, AccountLeaf1, ... in
\* order, at consecutive offsets.
C3_RowOrder ==
    \A i \in 1..Len(proofs) :
        LET rows == rows_of(i)
            steps == proofs[i].address_hash_traces
            n == Len(steps)
            leaves == << "AccountLeaf0", "AccountLeaf1", "AccountLeaf2",
                         "AccountLeaf3", "AccountLeaf4" >>
        IN /\ completed(i) => Len(rows) >= n + 1
           /\ \A j \in 1..Len(rows) :
                 LET c == rows[j].cells
                 IN /\ rows[j].offset = rows[1].offset + j - 1
                    /\ j = 1 => /\ c.segment_type = "Start"
                                /\ region[rows[1].offset].depth = 0
                    /\ (j > 1 /\ j <= n + 1) =>
                          /\ c.segment_type = "AccountTrie"
                          /\ c.depth = j - 1
                          /\ c.old_hash = steps[n + 2 - j].old_hash
                          /\ c.new_hash = steps[n + 2 - j].new_hash
                          /\ c.sibling = steps[n + 2 - j].sibling
                          /\ c.direction = steps[n + 2 - j].direction
                    /\ j > n + 1 =>
                          /\ j - n - 1 <= Len(leaves)
                          /\ c.segment_type = leaves[j - n - 1]

C3_Witness ==
    /\ pc = "done"
    /\ Len(proofs) = 1
    /\ Len(trie_rows_of(1)) = 2
    /\ Len(leaf_rows_of(1)) > 0
    /\ proofs[1].address_hash_traces[1].old_hash # proofs[1].address_hash_traces[2].old_hash

\* the leaf rows emitted for each claim are exactly the first n of
\* AccountLeaf0, AccountLeaf1, ..., each with its direction, sibling,
\* old_hash and new_hash assigned
leaf_block_is(n) ==
    \A i \in 1..Len(proofs) :
        LET block == leaf_rows_of(i)
        IN block # << >> =>
             /\ Len(block) = n
             /\ \A j \in 1..n :
                   /\ block[j].cells.segment_type = leaf_segment_types[j]
                   /\ { "direction", "sibling", "old_hash", "new_hash" }
                         \subseteq DOMAIN block[j].cells

\* C4 as the specification states it: a leaf block emitted for a
\* NonceChanged or BalanceChanged claim is exactly the five rows
\* AccountLeaf0 .. AccountLeaf4.
C4_FiveLeafRows == leaf_block_is(5)

\* C4: a leaf block emitted for a NonceChanged or BalanceChanged claim is
\* exactly the four rows AccountLeaf0 .. AccountLeaf3, each with a
\* direction, sibling, old_hash and new_hash assigned; no AccountLeaf4 row
\* is emitted.
C4_FourLeafRows == leaf_block_is(4)

C4_Witness ==
    \E i \in 1..Len(proofs) :
        /\ completed(i)
        /\ proofs[i].claim.kind = "NonceChanged"
        /\ leaf_rows_of(i) # << >>
        /\ leaf_rows_of(i)[Len(leaf_rows_of(i))].cells.segment_type = "AccountLeaf3"

\* the legal order Start -> AccountTrie* -> AccountLeaf0 .. AccountLeaf4
legal_predecessor(prev_segment, segment) ==
    CASE segment = "AccountTrie" -> prev_segment \in { "Start", "AccountTrie" }
      [] segment = "AccountLeaf0" -> prev_segment \in { "Start", "AccountTrie" }
      [] segment = "AccountLeaf1" -> prev_segment = "AccountLeaf0"
      [] segment = "AccountLeaf2" -> prev_segment = "AccountLeaf1"
      [] segment = "AccountLeaf3" -> prev_segment = "AccountLeaf2"
      [] segment = "AccountLeaf4" -> prev_segment = "AccountLeaf3"
      [] OTHER -> TRUE

\* C5: transitions are validated backward: in rows that satisfy the
\* registered constraints, every row other than the first has a legal
\* predecessor for its segment kind.
C5_BackwardTransitionsValidated ==
    (pc = "done" /\ verify(Oracle, region)) =>
        \A o \in Offsets \ { 0 } :
            legal_predecessor(region[o - 1].segment_type, region[o].segment_type)

\* the hash of the two children of the node above h, by direction
children_hash(direction, sibling, h) ==
    CASE direction = 1 -> hash(sibling, h)
      [] direction = 0 -> hash(h, sibling)

\* C6: on every Common row of rows that satisfy the constraints, the
\* children chosen by direction (sibling left when direction = 1, right when
\* direction = 0) hash to the previous row's old_hash and new_hash; every
\* Common step the assigner accepts satisfies the same two equalities
\* against its running hashes, which then advance to the step's hashes.
C6_CommonPathHashes ==
    /\ (pc = "done" /\ verify(Oracle, region)) =>
          \A o \in Offsets \ { 0 } :
              (region[o].path_type = "Common" /\ region[o].direction \in { 0, 1 }) =>
                  /\ children_hash(region[o].direction, region[o].sibling,
                                   region[o].old_hash) = region[o - 1].old_hash
                  /\ children_hash(region[o].direction, region[o].sibling,
                                   region[o].new_hash) = region[o - 1].new_hash
    /\ \A i \in 1..Len(proofs) :
          LET rows == rows_of(i)
          IN \A j \in 2..Len(rows) :
                (rows[j].cells.segment_type = "AccountTrie"
                    /\ rows[j].cells.path_type = "Common") =>
                    /\ children_hash(rows[j].cells.direction, rows[j].cells.sibling,
                                     rows[j].cells.old_hash) = rows[j - 1].cells.old_hash
                    /\ children_hash(rows[j].cells.direction, rows[j].cells.sibling,
                                     rows[j].cells.new_hash) = rows[j - 1].cells.new_hash
    /\ (pc = "trie" /\ depth >= 1 /\ path_type = "Common") =>
          LET step == proofs[pidx].address_hash_traces[
                          Len(proofs[pidx].address_hash_traces) + 1 - depth]
          IN /\ previous_old_hash = step.old_hash
             /\ previous_new_hash = step.new_hash

C6_Witness ==
    /\ pc = "done"
    /\ tampered = 0
    /\ verify(Oracle, region)
    /\ Len(proofs) = 1
    /\ Len(trie_rows_of(1)) = 2
    /\ \A j \in 1..2 : trie_rows_of(1)[j].cells.path_type = "Common"
    /\ trie_rows_of(1)[1].cells.direction # trie_rows_of(1)[2].cells.direction
    /\ \E o \in Offsets : region[o].segment_type = "AccountLeaf3"
                           /\ region[o].path_type = "Common"

\* C7: on every ExtensionOld row new_hash equals the previous row's
\* new_hash and on every ExtensionNew row old_hash equals the previous
\* row's old_hash, in rows that satisfy the constraints and in the trie and
\* leaf rows the assigner emits; the assigner leaves the running hash of
\* the frozen side as it was.
C7_FrozenHash ==
    /\ []( (pc = "done" /\ verify(Oracle, region)) =>
              \A o \in Offsets \ { 0 } :
                  /\ region[o].path_type = "ExtensionOld" =>
                        region[o].new_hash = region[o - 1].new_hash
                  /\ region[o].path_type = "ExtensionNew" =>
                        region[o].old_hash = region[o - 1].old_hash )
    /\ []( \A i \in 1..Len(proofs) :
              LET rows == rows_of(i)
              IN \A j \in 2..Len(rows) :
                    /\ rows[j].cells.path_type = "ExtensionOld" =>
                          rows[j].cells.new_hash = rows[j - 1].cells.new_hash
                    /\ rows[j].cells.path_type = "ExtensionNew" =>
                          rows[j].cells.old_hash = rows[j - 1].cells.old_hash )
    /\ [][ (pc = "trie" /\ pc' = "trie" /\ depth' = depth + 1) =>
              /\ path_type' = "ExtensionOld" => previous_new_hash' = previous_new_hash
              /\ path_type' = "ExtensionNew" => previous_old_hash' = previous_old_hash
         ]_vars

C7_Witness ==
    /\ pc = "done"
    /\ tampered = 0
    /\ verify(Oracle, region)
    /\ Len(proofs) = 1
    /\ Len(trie_rows_of(1)) = 2
    /\ \A j \in 1..2 : trie_rows_of(1)[j].cells.path_type = "ExtensionNew"
    /\ trie_rows_of(1)[1].cells.new_hash # trie_rows_of(1)[2].cells.new_hash
    /\ \E o \in Offsets : /\ region[o].segment_type = "AccountLeaf3"
                           /\ region[o].path_type = "ExtensionNew"
                           /\ region[o].old_hash # 0

\* the path kind the flags of a step stand for
path_kind_of_flags(is_padding_open, is_padding_close) ==
    CASE ~is_padding_open /\ ~is_padding_close -> "Common"
      [] ~is_padding_open /\ is_padding_close -> "ExtensionOld"
      [] is_padding_open /\ ~is_padding_close -> "ExtensionNew"

\* the step behind the k-th trie row of the i-th proof
step_of(i, k) ==
    proofs[i].address_hash_traces[Len(proofs[i].address_hash_traces) + 1 - k]

\* C8: the path kind of the trie row of every accepted step is given by
\* the step's flags alone; for a write to a type-1 empty account the trie
\* rows are ExtensionNew from the first step with is_padding_open set, and
\* not before.
C8_PathKindFromFlags ==
    \A i \in 1..Len(proofs) :
        LET rows == trie_rows_of(i)
        IN \A k \in 1..Len(rows) :
              /\ rows[k].cells.path_type =
                    path_kind_of_flags(step_of(i, k).is_padding_open,
                                       step_of(i, k).is_padding_close)
              /\ proofs[i] \in Type1Writes =>
                    ( rows[k].cells.path_type = "ExtensionNew"
                        <=> \E m \in 1..k : step_of(i, m).is_padding_open )

C8_Witness ==
    /\ pc = "done"
    /\ Len(proofs) = 1
    /\ proofs[1] \in Type1Writes
    /\ Len(trie_rows_of(1)) = 2
    /\ trie_rows_of(1)[1].cells.path_type = "Common"
    /\ trie_rows_of(1)[2].cells.path_type = "ExtensionNew"

path_of(e) == e.cells.path_type

\* C9 as the specification states it: among the rows of one claim the path
\* kind is Start only on the Start row, an ExtensionOld or ExtensionNew row
\* is followed only by rows of its own path kind, and when no trie row is
\* an extension row every row after Start, leaf rows included, is Common.
C9_PathKindCarried ==
    \A i \in 1..Len(proofs) :
        LET rows == rows_of(i)
        IN \A j \in 1..Len(rows) :
              /\ path_of(rows[j]) = "Start" <=> j = 1
              /\ path_of(rows[j]) \in { "ExtensionOld", "ExtensionNew" } =>
                    \A k \in j..Len(rows) : path_of(rows[k]) = path_of(rows[j])
              /\ (\A k \in 1..Len(trie_rows_of(i)) :
                      path_of(trie_rows_of(i)[k]) = "Common") =>
                    (j > 1 => path_of(rows[j]) = "Common")

\* the padding flags of the proof's steps stay set from the first depth at
\* which they are set
flags_stay_set(proof) ==
    LET tr == proof.address_hash_traces
    IN \A a, b \in 1..Len(tr) :
          a < b => /\ tr[a].is_padding_open \/ ~tr[b].is_padding_open
                   /\ tr[a].is_padding_close \/ ~tr[b].is_padding_close

\* C9: among the rows assign emits for one claim the path kind is Start
\* only on the Start row; when the flags of the steps stay set once set, an
\* ExtensionOld or ExtensionNew row is followed only by rows of its own
\* path kind; the leaf rows all have one path kind, that of the last trie
\* row unless that row is Common and the deepest step's old_hash (new_hash)
\* is zero, when the leaf rows are ExtensionNew (ExtensionOld).
C9_PathKindOfRows ==
    \A i \in 1..Len(proofs) :
        LET rows == rows_of(i)
            trie == trie_rows_of(i)
            leaf == leaf_rows_of(i)
            final == proofs[i].address_hash_traces[1]
        IN /\ \A j \in 1..Len(rows) :
                 /\ path_of(rows[j]) = "Start" <=> j = 1
                 /\ ( flags_stay_set(proofs[i])
                        /\ path_of(rows[j]) \in { "ExtensionOld", "ExtensionNew" } ) =>
                       \A k \in j..Len(rows) : path_of(rows[k]) = path_of(rows[j])
           /\ \A j \in 1..Len(leaf) :
                 path_of(leaf[j]) =
                    IF path_of(trie[Len(trie)]) # "Common" THEN path_of(trie[Len(trie)])
                    ELSE IF final.old_hash = 0 THEN "ExtensionNew"
                    ELSE IF final.new_hash = 0 THEN "ExtensionOld"
                    ELSE "Common"

C9_Witness ==
    /\ pc = "done"
    /\ Len(proofs) = 1
    /\ proofs[1] \in Type2Writes
    /\ Len(trie_rows_of(1)) = 2
    /\ \A j \in 1..2 : path_of(trie_rows_of(1)[j]) = "Common"
    /\ Len(leaf_rows_of(1)) > 0
    /\ \A j \in 1..Len(leaf_rows_of(1)) : path_of(leaf_rows_of(1)[j]) = "ExtensionNew"

\* the hash folded over steps i..Len(steps), stored deepest first, from h:
\* a step folds a side only while that side is not padding
RECURSIVE fold(_, _, _, _)
fold(steps, i, side, h) ==
    IF i > Len(steps) THEN h
    ELSE LET padding == IF side = "old" THEN steps[i].is_padding_open
                        ELSE steps[i].is_padding_close
         IN fold(steps, i + 1, side,
                 IF padding THEN h
                 ELSE children_hash(steps[i].direction, steps[i].sibling, h))

folds_to_roots(proof) ==
    LET steps == proof.address_hash_traces
    IN /\ fold(steps, 1, "old", steps[1].old_hash) = proof.claim.old_root
       /\ fold(steps, 1, "new", steps[1].new_hash) = proof.claim.new_root

\* C10: when assign completes the walk of a claim's authentication steps,
\* folding the hash from the deepest step up to the root, on each side
\* while it is active, gives the claimed old_root and new_root; a claim
\* whose steps do not fold to its roots never gets to the end of the walk:
\* assign fails on one of its steps.
C10_FoldReproducesRoots ==
    /\ \A i \in 1..Len(proofs) :
          (completed(i) /\ Len(proofs[i].address_hash_traces) >= 1) =>
              folds_to_roots(proofs[i])
    /\ ( pc \in { "trie", "panic" } /\ Len(proofs[pidx].address_hash_traces) >= 1
           /\ ~folds_to_roots(proofs[pidx]) ) =>
          \/ pc = "panic"
          \/ depth < Len(proofs[pidx].address_hash_traces)

C10_Witness ==
    /\ pc = "done"
    /\ Len(proofs) = 1
    /\ proofs[1] \in Type1Writes
    /\ Len(trie_rows_of(1)) = 2
    /\ proofs[1].claim.old_root # proofs[1].address_hash_traces[1].old_hash

both_flags(step) == step.is_padding_open /\ step.is_padding_close

\* C11: a step with both padding flags set is illegal: assign aborts when
\* the walk comes to it, no trie row is emitted for it, and assign does
\* not return for a batch holding such a step.
C11_BothFlagsAbort ==
    /\ []( \A i \in 1..Len(proofs) :
              /\ \A k \in 1..Len(trie_rows_of(i)) : ~both_flags(step_of(i, k))
              /\ completed(i) =>
                    \A k \in 1..Len(proofs[i].address_hash_traces) :
                        ~both_flags(step_of(i, k)) )
    /\ [][ ( /\ pc = "trie"
             /\ depth < Len(proofs[pidx].address_hash_traces)
             /\ both_flags(step_of(pidx, depth + 1)) ) =>
              (pc' = "panic" /\ emitted' = emitted) ]_vars

C11_Witness ==
    /\ pc = "panic"
    /\ depth = 1
    /\ Len(trie_rows_of(pidx)) = 1
    /\ both_flags(step_of(pidx, 2))
    /\ ~both_flags(step_of(pidx, 1))

\* neither the old nor the new leaf of the proof has the key of the claim's
\* address
neither_key_matches(proof) ==
    /\ proof.old.key # account_key(proof.claim.address)
    /\ proof.new.key # account_key(proof.claim.address)

\* assign aborted on the i-th proof before assigning any of its cells
aborted_without_rows(i) ==
    /\ rows_of(i) = << >>
    /\ ~completed(i)
    /\ pidx = i => pc \in { "proof", "panic" }
    /\ Len(proofs) = 1 => region = [ o \in Offsets |-> ZeroRow ]

\* C12 as the specification states it: whenever neither the old key nor
\* the new key is the key of the claim's address, equal to each other or
\* not, assign aborts and emits no row for the claim.
C12_NeitherKeyAborts ==
    \A i \in 1..Len(proofs) :
        neither_key_matches(proofs[i]) => aborted_without_rows(i)

\* C12: when neither key is the key of the claim's address and the two
\* keys differ from each other, assign aborts before assigning any cell of
\* the claim; when the two keys are equal to each other the assertion
\* passes: with the old leaf's data hash present, assign assigns the
\* claim's Start row, the old leaf's key being the other key.
C12_DistinctForeignKeysAbort ==
    \A i \in 1..Len(proofs) :
        neither_key_matches(proofs[i]) =>
            IF proofs[i].new.key # proofs[i].old.key
            THEN aborted_without_rows(i)
            ELSE ( proofs[i].old.leaf_data_hash # None
                     /\ (i < pidx \/ (i = pidx /\ pc # "proof")) ) =>
                    /\ Len(rows_of(i)) >= 1
                    /\ rows_of(i)[1].cells.segment_type = "Start"
                    /\ (tampered = 0 /\ Len(proofs) = 1) =>
                          region[0].other_key = proofs[i].old.key

C12_Witness ==
    /\ pc = "panic"
    /\ Len(proofs) = 1
    /\ neither_key_matches(proofs[1])
    /\ proofs[1].new.key # proofs[1].old.key
    /\ proofs[1].old.leaf_data_hash # None
    /\ Len(proofs[1].address_hash_traces) = 2
    /\ emitted = << >>

\* C13: an unimplemented claim kind is refused when the constraints are
\* configured, not served by an empty set of constraints: no rows that
\* satisfy the registered constraints carry a kind other than NonceChanged
\* or BalanceChanged.
C13_UnimplementedKindsRefused ==
    (pc = "done" /\ verify(Oracle, region)) =>
        \A o \in Offsets : region[o].proof_type \in Kinds

trie_segment(row) == row.segment_type \in { "AccountTrie", "StorageTrie" }

\* C14: in rows that satisfy the constraints, the depth of every trie row
\* is the depth of the row before it plus 1, depth and key are 0 on every
\* other row, and so a trie row that follows a Start row has depth 1.
C14_DepthAndKey ==
    (pc = "done" /\ verify(Oracle, region)) =>
        \A o \in Offsets :
            /\ trie_segment(region[o]) =>
                  /\ region[o].depth = row_at(region, o - 1).depth + 1
                  /\ row_at(region, o - 1).segment_type = "Start" => region[o].depth = 1
            /\ ~trie_segment(region[o]) =>
                  (region[o].depth = 0 /\ region[o].key = 0)

C14_Witness ==
    /\ pc = "done"
    /\ verify(Oracle, region)
    /\ region[0].segment_type = "Start"
    /\ trie_segment(region[1]) /\ region[1].depth = 1 /\ region[1].key # 0
    /\ trie_segment(region[2]) /\ region[2].depth = 2
    /\ region[3].segment_type = "AccountLeaf0" /\ region[3].other_key # 0

\* bit i of key, bit 0 the least significant
bit_of(key, i) == (key \div Pow2(i)) % 2

\* C15: in rows that satisfy the constraints, the direction of every trie
\* row is the bit of key at index depth - 1 (index 0 on the first trie
\* row), and on Common trie rows it is also that bit of other_key, so key
\* and other_key have the same bit there.
C15_DirectionIsKeyBit ==
    (pc = "done" /\ verify(Oracle, region)) =>
        \A o \in Offsets :
            trie_segment(region[o]) =>
                /\ region[o].depth >= 1
                /\ region[o].direction = bit_of(region[o].key, region[o].depth - 1)
                /\ region[o].path_type = "Common" =>
                      /\ region[o].direction =
                            bit_of(region[o].other_key, region[o].depth - 1)
                      /\ bit_of(region[o].key, region[o].depth - 1) =
                            bit_of(region[o].other_key, region[o].depth - 1)

C15_Witness ==
    /\ pc = "done"
    /\ verify(Oracle, region)
    /\ trie_segment(region[1]) /\ region[1].path_type = "Common"
    /\ region[1].other_key # region[1].key
    /\ trie_segment(region[2]) /\ region[2].path_type = "ExtensionNew"
    /\ region[2].direction # bit_of(region[2].other_key, 1)
    /\ region[1].direction # region[2].direction

\* both hashes of the deepest step of the proof are the empty node's
final_hashes_empty(proof) ==
    /\ proof.address_hash_traces[1].old_hash = 0
    /\ proof.address_hash_traces[1].new_hash = 0

\* the path kind the trie walk of the i-th proof ended on
walk_ended_on(i) == path_of(trie_rows_of(i)[Len(trie_rows_of(i))])

kind_of_final_hashes(proof) ==
    IF proof.address_hash_traces[1].old_hash = 0 THEN "ExtensionNew"
    ELSE IF proof.address_hash_traces[1].new_hash = 0 THEN "ExtensionOld"
    ELSE "Common"

\* C17 as the specification states it: the path kind of an emitted leaf
\* block is the one the deepest step's hashes select, overriding the path
\* kind the walk ended on.
C17_LeafKindFromHashes ==
    \A i \in 1..Len(proofs) :
        \A j \in 1..Len(leaf_rows_of(i)) :
            path_of(leaf_rows_of(i)[j]) = kind_of_final_hashes(proofs[i])

\* C17: the path kind of an emitted leaf block is the one the deepest
\* step's hashes select (ExtensionNew if only the old hash is empty,
\* ExtensionOld if only the new hash is empty, Common if both are
\* occupied) when the walk ended on Common; a walk that ended on
\* ExtensionOld or ExtensionNew keeps its path kind for the leaf block.
C17_LeafKindOverridesCommonOnly ==
    \A i \in 1..Len(proofs) :
        \A j \in 1..Len(leaf_rows_of(i)) :
            path_of(leaf_rows_of(i)[j]) =
                IF walk_ended_on(i) = "Common" THEN kind_of_final_hashes(proofs[i])
                ELSE walk_ended_on(i)

C17_Witness ==
    /\ pc = "done"
    /\ Len(proofs) = 1
    /\ proofs[1] \in Type1Writes
    /\ walk_ended_on(1) = "ExtensionNew"
    /\ kind_of_final_hashes(proofs[1]) = "Common"
    /\ Len(leaf_rows_of(1)) = 4
    /\ \A j \in 1..4 : path_of(leaf_rows_of(1)[j]) = "ExtensionNew"

\* C18: in rows that satisfy the constraints, a Common row followed by an
\* AccountLeaf0 row of path kind ExtensionNew has old_hash 0, and one
\* followed by an AccountLeaf0 row of path kind ExtensionOld has new_hash
\* 0; the rows assign emits agree: a leaf block that turns ExtensionNew
\* (ExtensionOld) after a Common trie row follows a row whose old_hash
\* (new_hash) is 0.
C18_EmptySideBeforeLeaf ==
    /\ (pc = "done" /\ verify(Oracle, region)) =>
          \A o \in Offsets :
              ( region[o].path_type = "Common"
                  /\ row_at(region, o + 1).segment_type = "AccountLeaf0" ) =>
                  /\ row_at(region, o + 1).path_type = "ExtensionNew" =>
                        region[o].old_hash = 0
                  /\ row_at(region, o + 1).path_type = "ExtensionOld" =>
                        region[o].new_hash = 0
    /\ \A i \in 1..Len(proofs) :
          LET rows == rows_of(i)
          IN \A j \in 2..Len(rows) :
                ( rows[j].cells.segment_type = "AccountLeaf0"
                    /\ path_of(rows[j - 1]) = "Common" ) =>
                    /\ path_of(rows[j]) = "ExtensionNew" =>
                          rows[j - 1].cells.old_hash = 0
                    /\ path_of(rows[j]) = "ExtensionOld" =>
                          rows[j - 1].cells.new_hash = 0

C18_Witness ==
    /\ pc = "done"
    /\ verify(Oracle, region)
    /\ region[2].segment_type = "AccountTrie"
    /\ region[2].path_type = "Common"
    /\ region[2].old_hash = 0
    /\ region[2].new_hash # 0
    /\ region[3].segment_type = "AccountLeaf0"
    /\ region[3].path_type = "ExtensionNew"

extension_row(row) == row.path_type \in { "ExtensionOld", "ExtensionNew" }

\* C19: in rows that satisfy the constraints, every trie row of path kind
\* ExtensionOld or ExtensionNew that is followed by another trie row has
\* sibling 0.
C19_NonFinalExtensionSibling ==
    (pc = "done" /\ verify(Oracle, region)) =>
        \A o \in Offsets :
            ( trie_segment(region[o]) /\ extension_row(region[o])
                /\ trie_segment(row_at(region, o + 1)) ) =>
                region[o].sibling = 0

C19_Witness ==
    /\ pc = "done"
    /\ verify(Oracle, region)
    /\ trie_segment(region[1]) /\ region[1].path_type = "ExtensionNew"
    /\ trie_segment(region[2]) /\ region[2].path_type = "ExtensionNew"
    /\ region[1].sibling = 0
    /\ region[2].sibling # 0

\* C20: in rows that satisfy the constraints, the sibling of the final
\* trie row of an extension path (a trie row not followed by a trie row)
\* is the hash of the frozen side on that row: old_hash on an ExtensionNew
\* row, new_hash on an ExtensionOld row.
C20_FinalExtensionSibling ==
    (pc = "done" /\ verify(Oracle, region)) =>
        \A o \in Offsets :
            ( trie_segment(region[o]) /\ ~trie_segment(row_at(region, o + 1)) ) =>
                /\ region[o].path_type = "ExtensionNew" =>
                      region[o].sibling = region[o].old_hash
                /\ region[o].path_type = "ExtensionOld" =>
                      region[o].sibling = region[o].new_hash

\* the offset of the Start row of the claim whose rows include offset o
start_row_of(o) ==
    CHOOSE s \in 0..o :
        /\ region[s].segment_type = "Start"
        /\ \A t \in (s + 1)..o : region[t].segment_type # "Start"

\* C21: when the rows assign has written satisfy the constraints, every
\* row with path kind ExtensionNew has old_value = 0, and so has the Start
\* row of its claim.
C21_ExtensionNewOldValueZero ==
    (pc = "done" /\ verify(Oracle, region)) =>
        \A o \in Offsets :
            region[o].path_type = "ExtensionNew" =>
                /\ region[o].old_value = 0
                /\ region[start_row_of(o)].old_value = 0

C21_Witness ==
    /\ pc = "done"
    /\ Len(proofs) = 1
    /\ verify(Oracle, region)
    /\ region[0].segment_type = "Start"
    /\ region[0].new_value # 0
    /\ region[1].path_type = "ExtensionNew"
    /\ region[1].segment_type = "AccountTrie"
    /\ region[2].path_type = "ExtensionNew"
    /\ region[2].segment_type = "AccountLeaf0"

\* an AccountLeaf0 row with path kind ExtensionNew
new_extension_leaf0(row) ==
    row.segment_type = "AccountLeaf0" /\ row.path_type = "ExtensionNew"

key_differs_indicator(row) ==
    ~gadget_current(Sub(row.key, row.other_key), row.key_equals_other_key)

\* the AccountLeaf0 row at offset o belongs to an ExtensionNew path of the
\* only claim of the batch, and other_key is not the claim's key
type_1_leaf0(o) ==
    /\ Len(proofs) = 1
    /\ new_extension_leaf0(region[o])
    /\ region[o].other_key # account_key(proofs[1].claim.address)

\* C23: on the AccountLeaf0 row of an ExtensionNew path, a non-zero
\* old_value violates the gate "if old account is type 1, then old value
\* is 0" whenever the key/other_key equality indicator is 0; and in rows
\* that satisfy the constraints old_value is 0 on that row whenever
\* other_key differs from the claim's key.
C23_TypeOneOldValueZero ==
    pc = "done" =>
        \A o \in Offsets :
            /\ ( new_extension_leaf0(region[o]) /\ key_differs_indicator(region[o])
                    /\ region[o].old_value # 0 ) =>
                  "if old account is type 1, then old value is 0"
                      \in violations(Oracle, region, o)
            /\ ( type_1_leaf0(o) /\ verify(Oracle, region) ) =>
                  region[o].old_value = 0

C23_Witness ==
    /\ pc = "done"
    /\ \E o \in Offsets :
          /\ type_1_leaf0(o)
          /\ key_differs_indicator(region[o])
          /\ region[o].old_value # 0
          /\ "if old account is type 1, then old value is 0"
                 \in violations(Oracle, region, o)

\* the leaf a claim's other_key columns describe: key, key hash, data hash
other_leaf_of(proof) ==
    LET key == account_key(proof.claim.address)
    IN IF proof.old.key # key
       THEN << proof.old.key, proof.old.key_hash, proof.old.leaf_data_hash[1] >>
       ELSE IF proof.new.key # key
       THEN << proof.new.key, proof.new.key_hash, proof.new.leaf_data_hash[1] >>
       ELSE << proof.old.key, proof.old.key_hash,
               IF proof.new.leaf_data_hash = None THEN 0
               ELSE proof.new.leaf_data_hash[1] >>

\* the offsets at and after the Start row e that still hold the rows of
\* e's claim: those before the Start row of the next claim
claim_offsets(e) ==
    { o \in e.offset..(e.offset + n_rows(proofs[e.proof]) - 1) :
        \A f \in Range(emitted) :
            ( f.proof > e.proof /\ f.cells.segment_type = "Start" ) => o < f.offset }

\* C24: once assign has written the Start row of a claim, the other_key,
\* other_key_hash and other_leaf_data_hash cells of the claim's rows hold:
\* the old leaf's key, key hash and data hash if the old leaf's key is not
\* the account key; else the new leaf's if the new leaf's key is not the
\* account key; else the old leaf's key and key hash with the new leaf's data
\* hash, or 0 when the new leaf has none.
C24_OtherKeySelection ==
    \A e \in Range(emitted) :
        e.cells.segment_type = "Start" =>
            \A o \in claim_offsets(e) :
                << region[o].other_key, region[o].other_key_hash,
                   region[o].other_leaf_data_hash >> = other_leaf_of(proofs[e.proof])

C24_Witness ==
    /\ pc = "done"
    /\ Len(proofs) = 1
    /\ \E e \in Range(emitted) :
          /\ e.cells.segment_type = "AccountLeaf0"
          /\ region[e.offset].other_key = account_key(proofs[1].claim.address)
          /\ region[e.offset].other_leaf_data_hash = 0
          /\ proofs[1].old.leaf_data_hash # None
          /\ proofs[1].new.leaf_data_hash = None

\* C25: in rows that satisfy the constraints, on the AccountLeaf0 row of a
\* NonceChanged or BalanceChanged claim the previous row's key is
\* H(upper_128_bits, address_low), address_low being what the address cell
\* leaves above upper_128_bits, and sibling is H(1, previous row's key); in
\* the rows as assign wrote them that key is H(address_high, address_low)
\* of the claim's address.
C25_LeafKeyAndPresenceMarker ==
    (pc = "done" /\ verify(Oracle, region)) =>
        \A o \in Offsets :
            ( region[o].segment_type = "AccountLeaf0" /\ region[o].proof_type \in Kinds ) =>
                LET key == row_at(region, o - 1).key
                IN /\ key = hash(region[o].upper_128_bits, address_low_query(region[o]))
                   /\ region[o].sibling = hash(1, key)
                   /\ ( tampered = 0 /\ Len(proofs) = 1 ) =>
                         key = hash(address_high(proofs[1].claim.address),
                                    address_low(proofs[1].claim.address))

C25_Witness ==
    /\ pc = "done"
    /\ tampered = 0
    /\ Len(proofs) = 1
    /\ verify(Oracle, region)
    /\ region[2].segment_type = "AccountTrie"
    /\ region[2].key # 0
    /\ region[3].segment_type = "AccountLeaf0"
    /\ region[3].proof_type = "BalanceChanged"
    /\ region[3].sibling # 0

\* the direction of a leaf row, by claim kind and segment
leaf_direction_of(kind, segment) ==
    CASE segment = "AccountLeaf0" -> 1
      [] segment \in { "AccountLeaf1", "AccountLeaf2" } -> 0
      [] segment = "AccountLeaf3" -> IF kind = "BalanceChanged" THEN 1 ELSE 0

AccountLeafRows == { "AccountLeaf0", "AccountLeaf1", "AccountLeaf2", "AccountLeaf3" }

\* C26: every leaf row assign emits for a NonceChanged or BalanceChanged
\* claim has the direction of its kind and segment (AccountLeaf0 1,
\* AccountLeaf1 and AccountLeaf2 0, AccountLeaf3 0 for NonceChanged and 1 for
\* BalanceChanged), and in rows that satisfy the constraints every such leaf
\* row has that same direction.
C26_LeafDirections ==
    /\ \A e \in Range(emitted) :
          ( e.cells.segment_type \in AccountLeafRows
              /\ proofs[e.proof].claim.kind \in Kinds ) =>
              e.cells.direction =
                  leaf_direction_of(proofs[e.proof].claim.kind, e.cells.segment_type)
    /\ ( pc = "done" /\ verify(Oracle, region) ) =>
          \A o \in Offsets :
              ( region[o].segment_type \in AccountLeafRows
                  /\ region[o].proof_type \in Kinds ) =>
                  region[o].direction =
                      leaf_direction_of(region[o].proof_type, region[o].segment_type)

C26_Witness ==
    /\ pc = "done"
    /\ verify(Oracle, region)
    /\ \E e \in Range(emitted) :
          /\ e.cells.segment_type = "AccountLeaf3"
          /\ proofs[e.proof].claim.kind = "BalanceChanged"
          /\ region[e.offset].segment_type = "AccountLeaf3"
          /\ region[e.offset].direction = 1

\* hash = code_size * 2^64 + nonce, in the field
packs(h, code_size, nonce) == h = Add(Mul(code_size, Pow2(Scaled(64))), nonce)

\* the AccountLeaf3 row at offset o of a NonceChanged claim
nonce_leaf3(o) ==
    region[o].segment_type = "AccountLeaf3" /\ region[o].proof_type = "NonceChanged"

\* C27: on the AccountLeaf3 row assign emits for a NonceChanged claim, the
\* hash of each side that has an account is code_size * 2^64 + nonce of that
\* account, the nonce being the claimed value, and (hash - value) / 2^64 is
\* its code size; in rows that satisfy the constraints, the code sizes so
\* derived from the two sides of a Common AccountLeaf3 row are equal.
C27_NonceAndCodeSizePacked ==
    /\ \A e \in Range(emitted) :
          LET proof == proofs[e.proof]
          IN ( e.cells.segment_type = "AccountLeaf3" /\ proof.claim.kind = "NonceChanged"
                 /\ proof \in ValidWrites \cup Deletions ) =>
                 /\ proof.old_account # None =>
                       /\ packs(e.cells.old_hash, proof.old_account[1].code_size,
                                proof.claim.old_value)
                       /\ Mul(Sub(e.cells.old_hash, proof.claim.old_value),
                              Inv(Pow2(Scaled(64)))) = proof.old_account[1].code_size
                 /\ proof.new_account # None =>
                       /\ packs(e.cells.new_hash, proof.new_account[1].code_size,
                                proof.claim.new_value)
                       /\ Mul(Sub(e.cells.new_hash, proof.claim.new_value),
                              Inv(Pow2(Scaled(64)))) = proof.new_account[1].code_size
    /\ ( pc = "done" /\ verify(Oracle, region) ) =>
          \A o \in Offsets :
              ( nonce_leaf3(o) /\ region[o].path_type = "Common" ) =>
                  Mul(Sub(region[o].old_hash, region[o].old_value), Inv(Pow2(Scaled(64))))
                      = Mul(Sub(region[o].new_hash, region[o].new_value),
                            Inv(Pow2(Scaled(64))))

C27_Witness ==
    /\ pc = "done"
    /\ verify(Oracle, region)
    /\ \E o \in Offsets :
          /\ nonce_leaf3(o)
          /\ region[o].path_type = "Common"
          /\ region[o].old_value # region[o].new_value
          /\ packs(region[o].old_hash, 1, region[o].old_value)
          /\ packs(region[o].new_hash, 1, region[o].new_value)

\* C28: in rows that satisfy the constraints, on the AccountLeaf3 row of a
\* NonceChanged claim every present component fits in 8 bytes: with path
\* kind Common the old nonce, the new nonce and the code size, with
\* ExtensionNew the new nonce, with ExtensionOld the old nonce.
C28_NonceComponentsFitEightBytes ==
    (pc = "done" /\ verify(Oracle, region)) =>
        \A o \in Offsets :
            nonce_leaf3(o) =>
                /\ region[o].path_type \in { "Common", "ExtensionOld" } =>
                      FitsBytes(region[o].old_value, 7)
                /\ region[o].path_type \in { "Common", "ExtensionNew" } =>
                      FitsBytes(region[o].new_value, 7)
                /\ region[o].path_type = "Common" =>
                      FitsBytes(Mul(Sub(region[o].old_hash, region[o].old_value),
                                    Inv(Pow2(Scaled(64)))), 7)

\* (hash - value) / 2^64 on the old and on the new side of a row
code_size_of_old_side(row) ==
    Mul(Sub(row.old_hash, row.old_value), Inv(Pow2(Scaled(64))))

code_size_of_new_side(row) ==
    Mul(Sub(row.new_hash, row.new_value), Inv(Pow2(Scaled(64))))

\* C29 as stated: an AccountLeaf3 row of a NonceChanged claim that satisfies
\* its constraints has, with path kind ExtensionNew, old code size 0 and,
\* with ExtensionOld, new code size 0: the code size of the frozen side.
C29_FrozenSideCodeSizeZero ==
    pc = "done" =>
        \A o \in Offsets :
            ( nonce_leaf3(o) /\ violations(Oracle, region, o) = { } ) =>
                /\ region[o].path_type = "ExtensionNew" =>
                      code_size_of_old_side(region[o]) = 0
                /\ region[o].path_type = "ExtensionOld" =>
                      code_size_of_new_side(region[o]) = 0

\* C29 amended: such a row has, with path kind ExtensionNew, new code size 0
\* and, with ExtensionOld, old code size 0: the code size of the side that
\* has the account.
C29_PresentSideCodeSizeZero ==
    pc = "done" =>
        \A o \in Offsets :
            ( nonce_leaf3(o) /\ violations(Oracle, region, o) = { } ) =>
                /\ region[o].path_type = "ExtensionNew" =>
                      code_size_of_new_side(region[o]) = 0
                /\ region[o].path_type = "ExtensionOld" =>
                      code_size_of_old_side(region[o]) = 0

C29_Witness ==
    /\ pc = "done"
    /\ verify(Oracle, region)
    /\ \E o \in Offsets :
          /\ nonce_leaf3(o)
          /\ region[o].path_type = "ExtensionNew"
          /\ region[o].new_value # 0
          /\ code_size_of_new_side(region[o]) = 0
          /\ code_size_of_old_side(region[o]) # 0

\* the AccountLeaf3 row at offset o of a BalanceChanged claim
balance_leaf3(o) ==
    region[o].segment_type = "AccountLeaf3" /\ region[o].proof_type = "BalanceChanged"

\* C30: an AccountLeaf3 row of a BalanceChanged claim that satisfies its
\* constraints has old_hash = old_value when its path kind is Common or
\* ExtensionOld and new_hash = new_value when it is Common or ExtensionNew;
\* the equality of the absent side (old on ExtensionNew, new on
\* ExtensionOld) is never among the constraints the row violates.
C30_BalanceIsLeafHash ==
    pc = "done" =>
        \A o \in Offsets :
            balance_leaf3(o) =>
                /\ violations(Oracle, region, o) = { } =>
                      /\ region[o].path_type \in { "Common", "ExtensionOld" } =>
                            region[o].old_hash = region[o].old_value
                      /\ region[o].path_type \in { "Common", "ExtensionNew" } =>
                            region[o].new_hash = region[o].new_value
                /\ region[o].path_type = "ExtensionNew" =>
                      "old_hash is old balance" \notin violations(Oracle, region, o)
                /\ region[o].path_type = "ExtensionOld" =>
                      "new_hash is new balance" \notin violations(Oracle, region, o)

C30_Witness ==
    /\ pc = "done"
    /\ verify(Oracle, region)
    /\ \E o \in Offsets :
          /\ balance_leaf3(o)
          /\ region[o].path_type = "ExtensionNew"
          /\ region[o].new_value # 0
          /\ region[o].new_hash = region[o].new_value
          /\ region[o].old_hash # region[o].old_value

\* C31: after assign on an empty batch every row is the all-zero row and
\* the rows satisfy every constraint and lookup of configure, against the
\* true relations and against the tables of the test circuit; and in every
\* state an all-zero row violates no constraint, whatever its neighbours.
C31_EmptyBatchSatisfiable ==
    /\ ( pc = "done" /\ proofs = << >> /\ tampered = 0 ) =>
          /\ \A o \in Offsets : region[o] = ZeroRow
          /\ verify(Oracle, region)
          /\ verify(TestTables(proofs), region)
    /\ \A o \in Offsets :
          region[o] = ZeroRow => violations(Oracle, region, o) = { }

C31_Witness ==
    /\ pc = "done"
    /\ proofs = << >>
    /\ tampered = 0
    /\ emitted = << >>
    /\ verify(TestTables(proofs), region)

\* the offsets of the rows assign has emitted for the i-th claim
offsets_of(i) == { e.offset : e \in Range(rows_of(i)) }

\* C32: two claims of a batch that assign has completed and that have the
\* same number of authentication steps have the same number of rows.
C32_RowCountFromPathLength ==
    \A i, j \in 1..Len(proofs) :
        ( completed(i) /\ completed(j)
            /\ Len(proofs[i].address_hash_traces) = Len(proofs[j].address_hash_traces) ) =>
            Cardinality(offsets_of(i)) = Cardinality(offsets_of(j))

\* every address of 160 bits (scaled as the other widths)
AllAddresses == 0..(Pow2(Scaled(160)) - 1)

\* the cells of an AccountLeaf0 row the address_low query reads, as assign
\* writes them for address a
address_cells(a) == [ address |-> address_to_fr(a), upper_128_bits |-> address_high(a) ]

\* the split of every address, and the in-circuit reconstruction of its low
\* part from the cells assign writes
address_split_exact ==
    \A a \in AllAddresses :
        LET high == a \div Pow2(Scaled(32))
            low32 == a % Pow2(Scaled(32))
        IN /\ a = high * Pow2(Scaled(32)) + low32
           /\ address_high(a) = high
           /\ FitsBytes(high, 15)
           /\ address_low(a) = low32 * Pow2(Scaled(96))
           /\ address_low_query(address_cells(a)) = address_low(a)

\* the row assign emitted as e has not been written over by a later claim
still_in_place(e) == \A f \in Range(emitted) : f.offset = e.offset => f = e

\* C33: for every address a, with high its top 128 bits and low32 its
\* bottom 32 bits, a = high * 2^32 + low32, address_low(a) = low32 * 2^96,
\* high fits in 16 bytes, and the in-circuit (address - upper_128_bits *
\* 2^32) * 2^96 equals address_low(a) when upper_128_bits = address_high(a);
\* and on every AccountLeaf0 row assign has written, the in-circuit pair
\* (upper_128_bits, address_low) is (address_high, address_low) of the
\* claim's address, whose hash is the account key.
C33_AddressSplitExact ==
    /\ address_split_exact
    /\ \A e \in Range(emitted) :
          ( e.cells.segment_type = "AccountLeaf0" /\ still_in_place(e) ) =>
              LET a == proofs[e.proof].claim.address
                  row == region[e.offset]
              IN /\ row.upper_128_bits = address_high(a)
                 /\ address_low_query(row) = address_low(a)
                 /\ hash(row.upper_128_bits, address_low_query(row)) = account_key(a)

C33_Witness ==
    /\ pc = "done"
    /\ \E e \in Range(emitted) :
          /\ e.cells.segment_type = "AccountLeaf0"
          /\ still_in_place(e)
          /\ region[e.offset].upper_128_bits = 2
          /\ region[e.offset].address = 9
          /\ address_low_query(region[e.offset]) = Pow2(Scaled(96))

\* C34: the constraint "sibling is zero for non-final old extension path
\* segments" is violated only by trie rows that are followed by a trie row:
\* no Start row and no leaf row violates it, whatever its sibling is.
C34_OldExtensionSiblingOnTrieRowsOnly ==
    pc = "done" =>
        \A o \in Offsets :
            "sibling is zero for non-final old extension path segments"
                \in violations(Oracle, region, o) =>
                trie_segment(region[o]) /\ trie_segment(row_at(region, o + 1))

\* C35: on every AccountLeaf0 row assign has written, the key/other_key
\* equality indicator is 1 exactly when other_key is the account key of the
\* claim's address.
C35_IndicatorComparesAccountKey ==
    \A e \in Range(emitted) :
        ( e.cells.segment_type = "AccountLeaf0" /\ still_in_place(e) ) =>
            LET row == region[e.offset]
            IN gadget_current(Sub(row.key, row.other_key), row.key_equals_other_key)
                   <=> row.other_key = account_key(proofs[e.proof].claim.address)

\* the segment kinds a NonceChanged or BalanceChanged claim has no row of
UnreachableSegments == { "AccountLeaf4", "StorageTrie", "StorageLeaf0", "StorageLeaf1" }

\* C36: a row of kind NonceChanged or BalanceChanged whose segment kind is
\* AccountLeaf4, StorageTrie, StorageLeaf0 or StorageLeaf1 violates the
\* unreachable constraint, so rows that satisfy the constraints have no such
\* row.
C36_UnreachableSegmentsRejected ==
    pc = "done" =>
        /\ \A o \in Offsets :
              ( region[o].proof_type \in Kinds
                  /\ region[o].segment_type \in UnreachableSegments ) =>
                  "unreachable segment type for nonce update"
                      \in violations(Oracle, region, o)
        /\ verify(Oracle, region) =>
              \A o \in Offsets :
                  region[o].proof_type \in Kinds =>
                      region[o].segment_type \notin UnreachableSegments

C36_Witness ==
    /\ pc = "done"
    /\ \E o \in Offsets :
          /\ region[o].proof_type = "BalanceChanged"
          /\ region[o].segment_type = "AccountLeaf4"
          /\ "unreachable segment type for nonce update" \in violations(Oracle, region, o)

\* C37: the tuple a row exposes is (proof_type, old_root, new_root,
\* old_value, new_value, address, storage_key_rlc): on a Start row the six
\* values are the row's old_hash, new_hash, old_value, new_value, address
\* and storage_key_rlc, on any other row they are 0; and the Start row
\* assign wrote for a claim exposes the claim's kind, roots, values, address
\* and storage key.
C37_LookupExposesStartRows ==
    /\ \A o \in Offsets :
          LET row == region[o]
              t == lookup(row)
          IN /\ Len(t) = 7
             /\ t[1] = row.proof_type
             /\ row.segment_type = "Start" =>
                   SubSeq(t, 2, 7) = << row.old_hash, row.new_hash, row.old_value,
                                        row.new_value, row.address, row.storage_key_rlc >>
             /\ row.segment_type # "Start" =>
                   SubSeq(t, 2, 7) = << 0, 0, 0, 0, 0, 0 >>
    /\ tampered = 0 =>
          \A e \in Range(emitted) :
              ( e.cells.segment_type = "Start" /\ still_in_place(e) ) =>
                  LET claim == proofs[e.proof].claim
                  IN lookup(region[e.offset]) =
                         << claim.kind, claim.old_root, claim.new_root, claim.old_value,
                            claim.new_value, address_to_fr(claim.address),
                            claim.storage_key >>

C37_Witness ==
    /\ pc = "done"
    /\ tampered = 0
    /\ Len(proofs) = 1
    /\ lookup(region[0]) =
           << "BalanceChanged", proofs[1].claim.old_root, proofs[1].claim.new_root,
              proofs[1].claim.old_value, proofs[1].claim.new_value, 6, 0 >>
    /\ proofs[1].claim.old_value # 0
    /\ region[1].segment_type = "AccountTrie"
    /\ region[1].old_value # 0
    /\ lookup(region[1]) = << "BalanceChanged", 0, 0, 0, 0, 0, 0 >>

====
